---- MODULE Spec2Model ----
(***************************************************************************)
(* Hybrid book search of the library backend: cursor pagination of         *)
(* BaseRepository.list and of the offset-paginated searches of             *)
(* BookRepository, the cursor tokens, and the natural-language cascade of  *)
(* POST /ai/books/search_nl.                                               *)
(***************************************************************************)
EXTENDS Integers, Sequences, FiniteSets, TLC

\* ------------------------------------------------------------------ bounds
MaxBooks == 3
MaxTime == 2
MaxRank == 1
MaxLimit == 2

\* the borrowings ever made, and the readings of the clock
MaxBorrowings == 3

MaxClock == 2

\* the reviews ReviewService ever stores
MaxReviews == 2

\* the ids BookService ever gives to a book
MaxBookId == 3

\* the page sizes borrow_book reads (limit=100 borrowings of the user and
\* limit=10 of the book in the code), scaled down with the table so that a
\* user's borrowings outnumber the page
UserPageLimit == 1

BookPageLimit == 1

VARIABLES
    store,        \* books table: id -> [created_at, matches, rank]
    is_postgres,  \* session.bind.dialect.name == "postgresql"
    walk,         \* the client's pagination walk: strategy, limit, order, cursor, ids got
    page,         \* the last page a search returned to the walk
    again,        \* the page the same request returned when it was repeated
    http,         \* a GET /books request and its answer
    vocab,        \* the distinct authors and genres of the stored books
    validation,   \* the last call of validate_where_clause: its argument and verdict
    nl,           \* a POST /ai/books/search_nl request: its stage, results and answer
    fuzzy,        \* a call of an author / genre matcher: its arguments and result
    extraction,   \* a call of nl_to_filters: its arguments, the oracle's part and the result
    fts,          \* a call of search_books_fts with structured filters, and its page
    lending,      \* the borrowings table, the clock and the last BorrowingService call
    catalog,      \* the books BookService stored, and its last call
    reviewing,    \* the reviews ReviewService stored, and its last call
    kwsearch,      \* a keyword search over the stored books, and the rows it kept
    desk          \* the borrowings table and the requests of BorrowingService under way

\* the variables of the calls made on their own
others == <<fuzzy, extraction, fts, lending, catalog, reviewing, kwsearch, desk>>

\* the variables of the searches and of the endpoints
searches == <<store, is_postgres, walk, page, again, http, vocab, validation, nl>>

vars == <<store, is_postgres, walk, page, again, http, vocab, validation, nl, others>>

\* ------------------------------------------------------------ sequences
Take(s, n) == SubSeq(s, 1, IF n < Len(s) THEN n ELSE Len(s))

Drop(s, n) == SubSeq(s, n + 1, Len(s))

Range(s) == {s[i] : i \in 1..Len(s)}

NoDup(s) == \A i, j \in 1..Len(s) : i # j => s[i] # s[j]

\* --------------------------------------------------------------- strings
\* Python str operations on strings; Ch(s, i) is s[i - 1].
Ch(s, i) == SubSeq(s, i, i)

Min(a, b) == IF a < b THEN a ELSE b

Max(a, b) == IF a > b THEN a ELSE b

UpperCase == "ABCDEFGHIJKLMNOPQRSTUVWXYZ"

LowerCase == "abcdefghijklmnopqrstuvwxyz"

Digits == "0123456789"

\* the 1-based index of the character c in s, 0 when absent
IndexOf(c, s) ==
    IF \E i \in 1..Len(s) : Ch(s, i) = c
    THEN CHOOSE i \in 1..Len(s) : Ch(s, i) = c /\ \A j \in 1..(i - 1) : Ch(s, j) # c
    ELSE 0

\* the lower-case letter of each upper-case letter, and the reverse
ToLower == [c \in {Ch(UpperCase, i) : i \in 1..Len(UpperCase)} |-> Ch(LowerCase, IndexOf(c, UpperCase))]

ToUpper == [c \in {Ch(LowerCase, i) : i \in 1..Len(LowerCase)} |-> Ch(UpperCase, IndexOf(c, LowerCase))]

LowerChar(c) == IF c \in DOMAIN ToLower THEN ToLower[c] ELSE c

UpperChar(c) == IF c \in DOMAIN ToUpper THEN ToUpper[c] ELSE c

RECURSIVE lower(_)
lower(s) == IF s = "" THEN "" ELSE LowerChar(Ch(s, 1)) \o lower(SubSeq(s, 2, Len(s)))

RECURSIVE upper(_)
upper(s) == IF s = "" THEN "" ELSE UpperChar(Ch(s, 1)) \o upper(SubSeq(s, 2, Len(s)))

IsSpace(c) == c \in {" ", "\n", "\t"}

\* the characters of \w
WordChars ==
    {Ch(UpperCase \o LowerCase \o Digits \o "_", i) :
        i \in 1..Len(UpperCase \o LowerCase \o Digits \o "_")}

IsWordChar(c) == c \in WordChars

\* s[i - 1:] starts with prefix
StartsAt(s, i, prefix) ==
    /\ i >= 1 /\ i + Len(prefix) - 1 <= Len(s)
    /\ SubSeq(s, i, i + Len(prefix) - 1) = prefix

startswith(s, prefix) == StartsAt(s, 1, prefix)

endswith(s, suffix) == Len(suffix) <= Len(s) /\ StartsAt(s, Len(s) - Len(suffix) + 1, suffix)

\* sub in s
Contains(s, sub) == \E i \in 1..(Len(s) - Len(sub) + 1) : StartsAt(s, i, sub)

\* s.find(sub, i - 1) + 1, 0 when absent
Find(s, sub, i) ==
    IF \E k \in i..(Len(s) - Len(sub) + 1) : StartsAt(s, k, sub)
    THEN CHOOSE k \in i..(Len(s) - Len(sub) + 1) :
            StartsAt(s, k, sub) /\ \A m \in i..(k - 1) : ~StartsAt(s, m, sub)
    ELSE 0

RECURSIVE lstrip(_)
lstrip(s) == IF s # "" /\ IsSpace(Ch(s, 1)) THEN lstrip(SubSeq(s, 2, Len(s))) ELSE s

RECURSIVE rstrip(_)
rstrip(s) == IF s # "" /\ IsSpace(Ch(s, Len(s))) THEN rstrip(SubSeq(s, 1, Len(s) - 1)) ELSE s

strip(s) == lstrip(rstrip(s))

\* s.replace(old, new), old non-empty
RECURSIVE replace(_, _, _)
replace(s, old, new) ==
    LET k == Find(s, old, 1)
    IN  IF k = 0 THEN s
        ELSE SubSeq(s, 1, k - 1) \o new \o replace(SubSeq(s, k + Len(old), Len(s)), old, new)

\* s.split(): the whitespace-separated words of s
RECURSIVE split(_)
split(s) ==
    LET t == lstrip(s)
        ends == {k \in 1..Len(t) : IsSpace(Ch(t, k))}
        sp == IF ends = {} THEN 0 ELSE CHOOSE k \in ends : \A m \in ends : k <= m
    IN  IF t = "" THEN <<>>
        ELSE IF sp = 0 THEN <<t>>
        ELSE <<SubSeq(t, 1, sp - 1)>> \o split(SubSeq(t, sp + 1, Len(t)))

\* ------------------------------------------------ difflib.SequenceMatcher
\* the length of the common run of a from i and b from j, within a[..ahi], b[..bhi]
RECURSIVE RunLen(_, _, _, _, _, _)
RunLen(a, i, ahi, b, j, bhi) ==
    IF i > ahi \/ j > bhi \/ Ch(a, i) # Ch(b, j) THEN 0
    ELSE 1 + RunLen(a, i + 1, ahi, b, j + 1, bhi)

\* find_longest_match: <<i, j, k>>, k maximal, then i least, then j least
find_longest_match(a, alo, ahi, b, blo, bhi) ==
    LET P == (alo..ahi) \X (blo..bhi)
        best == CHOOSE p \in P :
                  \A q \in P :
                    LET kp == RunLen(a, p[1], ahi, b, p[2], bhi)
                        kq == RunLen(a, q[1], ahi, b, q[2], bhi)
                    IN  \/ kp > kq
                        \/ kp = kq /\ (p[1] < q[1] \/ (p[1] = q[1] /\ p[2] <= q[2]))
    IN  IF P = {} THEN <<alo, blo, 0>>
        ELSE <<best[1], best[2], RunLen(a, best[1], ahi, b, best[2], bhi)>>

\* the total size of get_matching_blocks() on a[alo..ahi], b[blo..bhi]
RECURSIVE MatchingSize(_, _, _, _, _, _)
\* the size of the longest match m and of the blocks on both sides of it
BlocksAround(a, alo, ahi, b, blo, bhi, m) ==
    IF m[3] = 0 THEN 0
    ELSE m[3] + MatchingSize(a, alo, m[1] - 1, b, blo, m[2] - 1)
              + MatchingSize(a, m[1] + m[3], ahi, b, m[2] + m[3], bhi)

MatchingSize(a, alo, ahi, b, blo, bhi) ==
    BlocksAround(a, alo, ahi, b, blo, bhi, find_longest_match(a, alo, ahi, b, blo, bhi))

\* A score is the fraction <<n, d>>, d > 0.
ScoreLess(x, y) == x[1] * y[2] < y[1] * x[2]

ScoreAtLeast(x, percent) == x[1] * 100 >= percent * x[2]

\* SequenceMatcher(None, a, b).ratio() = 2.0 * matches / (len(a) + len(b))
ratio(a, b) ==
    IF Len(a) + Len(b) = 0 THEN <<1, 1>>
    ELSE <<2 * MatchingSize(a, 1, Len(a), b, 1, Len(b)), Len(a) + Len(b)>>

\* score + bonus, the bonus in hundredths
PlusHundredths(x, h) == <<100 * x[1] + h * x[2], 100 * x[2]>>

\* ----------------------------------------------------- fuzzy entity matcher
\* The characters of names, in code-point order (str comparison).
CodePointOrder == " %'()-.0123456789;=ABCDEFGHIJKLMNOPQRSTUVWXYZ_abcdefghijklmnopqrstuvwxyz"

\* x < y on str
RECURSIVE StrLess(_, _)
StrLess(x, y) ==
    IF y = "" THEN FALSE
    ELSE IF x = "" THEN TRUE
    ELSE IF Ch(x, 1) = Ch(y, 1) THEN StrLess(SubSeq(x, 2, Len(x)), SubSeq(y, 2, Len(y)))
    ELSE IndexOf(Ch(x, 1), CodePointOrder) < IndexOf(Ch(y, 1), CodePointOrder)

Matched(value) == [exc |-> "none", value |-> value]

MatchRaises(exc) == [exc |-> exc, value |-> ""]

\* the exact match, had the comparison kept the letter case
ExactMatchesSameCase(candidate, vocabulary) ==
    {i \in 1..Len(vocabulary) :
        /\ vocabulary[i] = candidate
        /\ \A j \in 1..(i - 1) : vocabulary[j] # candidate
        /\ vocabulary[i] # ""}

\* next(v for v in vocabulary if v.lower() == candidate.lower()), when it is
\* a non-empty string (if exact_match), as a set of at most one index
ExactMatches(candidate, vocabulary) ==
    {i \in 1..Len(vocabulary) :
        /\ lower(vocabulary[i]) = lower(candidate)
        /\ \A j \in 1..(i - 1) : lower(vocabulary[j]) # lower(candidate)
        /\ vocabulary[i] # ""}

\* candidates = [full_name] + full_name.split(), for each full_name in turn
RECURSIVE AuthorCandidates(_)
AuthorCandidates(authors) ==
    IF authors = <<>> THEN <<>>
    ELSE LET full == Head(authors)
             words == split(full)
         IN  <<[full |-> full, cand |-> full]>>
             \o [i \in 1..Len(words) |-> [full |-> full, cand |-> words[i]]]
             \o AuthorCandidates(Tail(authors))

\* SequenceMatcher ratio of the lowered strings, + 0.1 for the first word of the name
AuthorScore(author, c) ==
    PlusHundredths(ratio(lower(author), lower(c.cand)),
                   IF c.cand = split(c.full)[1] THEN 10 ELSE 0)

\* the name of the first candidate with the best score, when that score is >= 0.65
\* if score > best_score: the index of the first of the greatest scores
FirstBest(score) ==
    CHOOSE i \in 1..Len(score) :
        /\ \A j \in 1..Len(score) : ~ScoreLess(score[i], score[j])
        /\ \A j \in 1..(i - 1) : ScoreLess(score[j], score[i])

\* best_match if best_score >= 0.65 else author
BestOf(author, cands, score) ==
    IF cands # <<>> /\ ScoreAtLeast(score[FirstBest(score)], 65)
    THEN cands[FirstBest(score)].full ELSE author

BestAmong(author, cands) ==
    BestOf(author, cands, [i \in 1..Len(cands) |-> AuthorScore(author, cands[i])])

BestAuthor(author, authors) == BestAmong(author, AuthorCandidates(authors))

_fuzzy_match_author(author, available_authors) ==
    LET exact == ExactMatches(author, available_authors)
    IN  IF exact # {} THEN Matched(available_authors[CHOOSE i \in exact : TRUE])
        ELSE IF \E i \in 1..Len(available_authors) : split(available_authors[i]) = <<>>
             THEN MatchRaises("IndexError")
        ELSE Matched(BestAuthor(author, available_authors))

\* genre_lower in g.lower() or g.lower() in genre_lower, with
\* min(len) / max(len) >= 0.6
SubstringOverlap(genre, g) ==
    /\ Contains(lower(g), lower(genre)) \/ Contains(lower(genre), lower(g))
    /\ 10 * Min(Len(genre), Len(g)) >= 6 * Max(Len(genre), Len(g))

\* get_close_matches(word, possibilities, n=1, cutoff): the possibilities with
\* ratio >= cutoff, the best first (score, then the string itself)
get_close_matches(word, possibilities, cutoff) ==
    LET close == {i \in 1..Len(possibilities) :
                    ScoreAtLeast(ratio(possibilities[i], word), cutoff)}
        Better(i, j) ==
            \/ ScoreLess(ratio(possibilities[j], word), ratio(possibilities[i], word))
            \/ /\ ~ScoreLess(ratio(possibilities[i], word), ratio(possibilities[j], word))
               /\ StrLess(possibilities[j], possibilities[i])
    IN  IF close = {} THEN <<>>
        ELSE <<possibilities[CHOOSE i \in close :
                               \A j \in close : possibilities[j] = possibilities[i] \/ Better(i, j)]>>

\* matches[0] if matches else otherwise
FirstOr(matches, otherwise) == IF matches # <<>> THEN matches[1] ELSE otherwise

_fuzzy_match_genre(genre, available_genres) ==
    LET exact == ExactMatches(genre, available_genres)
        sub == {i \in 1..Len(available_genres) : SubstringOverlap(genre, available_genres[i])}
    IN  IF exact # {} THEN Matched(available_genres[CHOOSE i \in exact : TRUE])
        ELSE IF genre = "" /\ \E i \in 1..Len(available_genres) : available_genres[i] = ""
             THEN MatchRaises("ZeroDivisionError")
        ELSE IF sub # {}
             THEN Matched(available_genres[CHOOSE i \in sub : \A j \in sub : i <= j])
        ELSE Matched(FirstOr(get_close_matches(genre, available_genres, 75), genre))

\* ------------------------------------------------ SQL predicate validator
\* validate_where_clause of src/utils/sql_validator.py, which is not among the
\* sources: the rule pipeline is the one of the design document, section 4.3,
\* and the messages are those the unit tests of the validator expect.
ALLOWED_COLUMNS == {"title", "description", "author", "genre", "isbn", "published_date"}

DANGEROUS_KEYWORDS == <<"DELETE", "DROP", "UPDATE", "INSERT", "ALTER", "EXEC", "UNION", "JOIN">>

TYPO_VARIANTS == <<"delect", "delet", "updat", "drp", "insrt", "deleted", "deletes">>

ALLOWED_FUNCTIONS == {"EXTRACT"}

\* the words of the predicate language that are neither columns nor functions
SQL_WORDS == {"ILIKE", "LIKE", "NOT", "AND", "OR", "IN", "IS", "NULL", "BETWEEN",
              "YEAR", "MONTH", "DAY", "FROM"}

Accepted == [ok |-> TRUE, msg |-> "Valid"]

Rejected(msg) == [ok |-> FALSE, msg |-> msg]

\* position i of s lies inside a quoted literal
InLiteral(s, i) == Cardinality({j \in 1..(i - 1) : Ch(s, j) = "'"}) % 2 = 1

\* the positions where any word starts, quoted or not
WordStartsAnywhere(s) ==
    {k \in 1..Len(s) : IsWordChar(Ch(s, k)) /\ (k = 1 \/ ~IsWordChar(Ch(s, k - 1)))}

\* the positions where a word outside the quoted literals starts
WordStarts(s) ==
    {k \in 1..Len(s) : /\ IsWordChar(Ch(s, k))
                       /\ (k = 1 \/ ~IsWordChar(Ch(s, k - 1)))
                       /\ ~InLiteral(s, k)}

\* the position where the word starting at k ends
WordEnd(s, k) ==
    CHOOSE m \in k..Len(s) :
        /\ \A j \in k..m : IsWordChar(Ch(s, j))
        /\ (m = Len(s) \/ ~IsWordChar(Ch(s, m + 1)))

IsNumber(w) == \A j \in 1..Len(w) : Ch(w, j) \in {Ch(Digits, i) : i \in 1..Len(Digits)}

\* the first entry of the sequence words that occurs in s in the same letter case
FirstOccurringExactCase(words, s) ==
    LET hits == {k \in 1..Len(words) : Contains(s, words[k])}
    IN  IF hits = {} THEN "" ELSE words[CHOOSE k \in hits : \A m \in hits : k <= m]

\* the first entry of the sequence words that occurs in s, ignoring case
FirstOccurring(words, s) ==
    LET low == lower(s)
        hits == {k \in 1..Len(words) : Contains(low, lower(words[k]))}
    IN  IF hits = {} THEN "" ELSE words[CHOOSE k \in hits : \A m \in hits : k <= m]

\* an opening parenthesis followed by SELECT
HasSubquery(s) ==
    \E i \in 1..Len(s) :
        Ch(s, i) = "(" /\ startswith(lower(lstrip(SubSeq(s, i + 1, Len(s)))), "select")

\* a word directly followed by an opening parenthesis that is not an allowed function
HasDisallowedFunction(s) ==
    \E k \in WordStarts(s) :
        /\ WordEnd(s, k) < Len(s) /\ Ch(s, WordEnd(s, k) + 1) = "("
        /\ upper(SubSeq(s, k, WordEnd(s, k))) \notin ALLOWED_FUNCTIONS

\* a word that is no column of the entity, no word of the language and no number
HasDisallowedColumn(s) ==
    \E k \in WordStarts(s) :
        LET w == SubSeq(s, k, WordEnd(s, k))
        IN  /\ lower(w) \notin ALLOWED_COLUMNS
            /\ upper(w) \notin SQL_WORDS \cup ALLOWED_FUNCTIONS
            /\ ~IsNumber(w)

\* the parentheses open at position i
Depth(s, i) ==
    Cardinality({j \in 1..i : Ch(s, j) = "("}) - Cardinality({j \in 1..i : Ch(s, j) = ")"})

Balanced(s) == Depth(s, Len(s)) = 0 /\ \A i \in 1..Len(s) : Depth(s, i) >= 0

validate_where_clause(where_clause) ==
    IF strip(where_clause) = "" THEN Rejected("WHERE clause is empty")
    ELSE IF Contains(where_clause, ";") THEN Rejected("Multiple statements not allowed")
    ELSE IF \E marker \in {"--", "/*", "*/"} : Contains(where_clause, marker)
         THEN Rejected("SQL comments not allowed")
    ELSE IF FirstOccurring(DANGEROUS_KEYWORDS, where_clause) # ""
         THEN Rejected(FirstOccurring(DANGEROUS_KEYWORDS, where_clause))
    ELSE IF FirstOccurring(TYPO_VARIANTS, where_clause) # ""
         THEN Rejected(FirstOccurring(TYPO_VARIANTS, where_clause))
    ELSE IF HasSubquery(where_clause) THEN Rejected("Subqueries not allowed")
    ELSE IF HasDisallowedFunction(where_clause) THEN Rejected("Dangerous functions not allowed")
    ELSE IF HasDisallowedColumn(where_clause) THEN Rejected("Column not allowed")
    ELSE IF ~Balanced(where_clause) THEN Rejected("Unbalanced parentheses")
    ELSE Accepted

\* ------------------------------------------------ NL-to-predicate translator
\* Optional values: None, or Some(x).
None == <<>>

Some(x) == <<x>>

\* The markdown code fence (three backquotes), written with tildes here.
Fence == "~~~"

\* content = response.text.strip(); the fence with the language tag, a bare
\* fence and a closing fence are cut off; content.strip()
CutPrefix(content, prefix) ==
    IF startswith(content, prefix) THEN SubSeq(content, Len(prefix) + 1, Len(content))
    ELSE content

CutSuffix(content, suffix) ==
    IF endswith(content, suffix) THEN SubSeq(content, 1, Len(content) - Len(suffix))
    ELSE content

StripFence(text, language) ==
    strip(CutSuffix(CutPrefix(CutPrefix(strip(text), Fence \o language), Fence), Fence))

\* if where_clause.upper().startswith('WHERE '): where_clause[6:].strip()
StripWhere(where_clause) ==
    IF startswith(upper(where_clause), "WHERE ")
    THEN strip(SubSeq(where_clause, 7, Len(where_clause)))
    ELSE where_clause

\* the position after the whitespace that starts at i
SkipSpaces(s, i) ==
    CHOOSE k \in i..(Len(s) + 1) :
        /\ \A j \in i..(k - 1) : IsSpace(Ch(s, j))
        /\ (k = Len(s) + 1 \/ ~IsSpace(Ch(s, k)))

\* r"<column>\s+ILIKE\s+'%([^%]+)%'" with re.IGNORECASE, matched at position i:
\* <<the group, the position after the match>>, or <<"", 0>>
MatchIlike(s, i, column) ==
    LET a == i + Len(column)
        b == SkipSpaces(s, a)
        c == b + 5
        d == SkipSpaces(s, c)
        e == d + 2
        pct == Find(s, "%", e)
    IN  IF /\ LowerChar(Ch(s, i)) = Ch(column, 1)
           /\ a - 1 <= Len(s) /\ lower(SubSeq(s, i, a - 1)) = column
           /\ b > a
           /\ c - 1 <= Len(s) /\ lower(SubSeq(s, b, c - 1)) = "ilike"
           /\ d > c
           /\ StartsAt(s, d, "'%")
           /\ pct > e
           /\ StartsAt(s, pct, "%'")
        THEN <<SubSeq(s, e, pct - 1), pct + 2>>
        ELSE <<"", 0>>

\* re.findall(pattern, s, re.IGNORECASE) from position i on
RECURSIVE findall(_, _, _)
\* the match m at position i and the matches after it, or those from i + 1 on
FromMatch(s, i, column, m) ==
    IF m[2] > 0 THEN <<m[1]>> \o findall(s, m[2], column)
    ELSE findall(s, i + 1, column)

findall(s, i, column) ==
    IF i > Len(s) THEN <<>> ELSE FromMatch(s, i, column, MatchIlike(s, i, column))

\* for value in matches: the corrected value replaces the value in every
\* "<column> ILIKE '%value%'" of the clause
RECURSIVE ReplaceMatches(_, _, _, _)
\* if corrected and corrected != value: the clause with the value replaced
ReplaceValue(clause, column, value, corrected) ==
    IF corrected # "" /\ corrected # value
    THEN replace(clause, column \o " ILIKE '%" \o value \o "%'",
                 column \o " ILIKE '%" \o corrected \o "%'")
    ELSE clause

\* the matcher's result m for the first value, then the other values
ReplaceNext(clause, values, column, vocabulary, m) ==
    IF m.exc # "none" THEN m
    ELSE ReplaceMatches(ReplaceValue(clause, column, Head(values), m.value),
                        Tail(values), column, vocabulary)

ReplaceMatches(clause, values, column, vocabulary) ==
    IF values = <<>> THEN Matched(clause)
    ELSE ReplaceNext(clause, values, column, vocabulary,
                     IF column = "author" THEN _fuzzy_match_author(Head(values), vocabulary)
                     ELSE _fuzzy_match_genre(Head(values), vocabulary))

\* the genre loop, on the clause the author loop left
ThenReplace(done, values, column, vocabulary) ==
    IF done.exc # "none" THEN done
    ELSE ReplaceMatches(done.value, values, column, vocabulary)

\* both lists of matches are taken from the clause as it came in; with no
\* match in either the clause is returned as it is
_apply_fuzzy_matching_to_where_clause(where_clause, available_authors, available_genres) ==
    ThenReplace(
        ReplaceMatches(where_clause, findall(where_clause, 1, "author"), "author",
                       available_authors),
        findall(where_clause, 1, "genre"), "genre", available_genres)

\* What an oracle call does: it raises an exception with a message, or
\* answers with a text.
OracleRaises(message) == [raised |-> TRUE, message |-> message, text |-> ""]

OracleAnswers(text) == [raised |-> FALSE, message |-> "", text |-> text]

\* the fallback reason, had every exception been taken for an oracle failure
AlwaysGeminiError(error_msg) == "gemini_error"

\* the fallback reason of an exception with the message error_msg
FallbackReason(error_msg) ==
    IF Contains(lower(error_msg), "quota") \/ Contains(error_msg, "429") THEN "quota_exceeded"
    ELSE IF Contains(lower(error_msg), "event loop") THEN "event_loop_error"
    ELSE "gemini_error"

\* The result of nl_to_sql_where; `oracle_called` and `validated` record the
\* oracle call and the string handed to validate_where_clause.
SqlFailure(fallback_reason, attempted_clause, oracle_called, validated) ==
    [exc |-> "none", success |-> FALSE, where_clause |-> None,
     error |-> Some(CASE fallback_reason = "empty_query" -> "Query cannot be empty"
                      [] fallback_reason = "api_key_missing" -> "GEMINI_API_KEY not set"
                      [] OTHER -> "Generated WHERE clause failed validation"),
     fallback_reason |-> Some(fallback_reason), attempted_clause |-> attempted_clause,
     oracle_called |-> oracle_called, validated |-> validated]

SqlSuccess(where_clause, validated) ==
    [exc |-> "none", success |-> TRUE, where_clause |-> Some(where_clause),
     error |-> None, fallback_reason |-> None, attempted_clause |-> None,
     oracle_called |-> TRUE, validated |-> validated]

\* str(e) of the exception the matcher raised
MatcherMessage(exc) ==
    IF exc = "IndexError" THEN "list index out of range" ELSE "division by zero"

\* if not is_valid: the failure "validation_failed" with the attempted clause
ValidationPassedAnyway(where_clause) == SqlSuccess(where_clause, Some(where_clause))

ValidationFailed(where_clause) ==
    SqlFailure("validation_failed", Some(where_clause), TRUE, Some(where_clause))

\* except Exception as e: the failure with the fallback reason of str(e)
ExceptionEscapes(error_msg, validated) ==
    [SqlFailure(FallbackReason(error_msg), None, TRUE, validated)
        EXCEPT !.exc = "Exception", !.error = Some(error_msg)]

ExceptionCaught(error_msg, validated) ==
    [SqlFailure(FallbackReason(error_msg), None, TRUE, validated)
        EXCEPT !.error = Some(error_msg)]

\* where_clause = await _apply_fuzzy_matching_to_where_clause(where_clause): the
\* success with the corrected clause, or the exception of the matcher
Correct(where_clause, corrected) ==
    IF corrected.exc # "none"
    THEN ExceptionCaught(MatcherMessage(corrected.exc), Some(where_clause))
    ELSE SqlSuccess(corrected.value, Some(where_clause))

\* is_valid, validation_msg = validate_where_clause(where_clause), and on
\* acceptance the fuzzy correction
Validate(where_clause, vocabulary) ==
    IF ~validate_where_clause(where_clause).ok THEN ValidationFailed(where_clause)
    ELSE Correct(where_clause,
                 _apply_fuzzy_matching_to_where_clause(
                     where_clause, vocabulary.authors, vocabulary.genres))

nl_to_sql_where(query, api_key, oracle, vocabulary) ==
    IF strip(query) = "" THEN SqlFailure("empty_query", None, FALSE, None)
    ELSE IF ~api_key THEN SqlFailure("api_key_missing", None, FALSE, None)
    ELSE IF oracle.raised THEN ExceptionCaught(oracle.message, None)
    ELSE Validate(StripWhere(StripFence(oracle.text, "sql")), vocabulary)

\* ---------------------------------------------------- NL-to-filter extractor
\* A JSON value of the oracle's answer: null, a string or an integer.
JNull == [kind |-> "null", s |-> "", n |-> 0]

JStr(s) == [kind |-> "str", s |-> s, n |-> 0]

JInt(n) == [kind |-> "int", s |-> "", n |-> n]

\* json.loads of the answer: not JSON, a JSON value that is no object, or an object
NotJson == [form |-> "malformed", author |-> JNull, genre |-> JNull,
            published_year |-> JNull, search_query |-> JNull]

JsonArray == [form |-> "array", author |-> JNull, genre |-> JNull,
              published_year |-> JNull, search_query |-> JNull]

JsonFilters(author, genre, published_year, search_query) ==
    [form |-> "object", author |-> author, genre |-> genre,
     published_year |-> published_year, search_query |-> search_query]

\* the number a string of digits denotes
RECURSIVE DigitsValue(_)
DigitsValue(s) ==
    IF s = "" THEN 0
    ELSE 10 * DigitsValue(SubSeq(s, 1, Len(s) - 1)) + IndexOf(Ch(s, Len(s)), Digits) - 1

\* x < y for two scores, by their continued fractions
RECURSIVE FractionLess(_, _, _, _)
FractionLess(a, b, c, d) ==
    IF a \div b # c \div d THEN a \div b < c \div d
    ELSE IF c % d = 0 THEN FALSE
    ELSE IF a % b = 0 THEN TRUE
    ELSE FractionLess(d, c % d, b, a % b)

\* the number of leading positions where query and candidate agree
PrefixMatch(query, candidate) ==
    Cardinality({k \in 1..Min(Len(query), Len(candidate)) :
                    SubSeq(query, 1, k) = SubSeq(candidate, 1, k)})

\* ratio + 0.15 * prefix_match / min_len (min_len >= 3) - 0.1 * len_diff / max_len,
\* kept within [0, 1]
Weighted(query, candidate, sim) ==
    LET min_len == Min(Len(query), Len(candidate))
        max_len == Max(Len(query), Len(candidate))
        lo == IF min_len = 0 THEN 1 ELSE min_len
        hi == IF max_len = 0 THEN 1 ELSE max_len
        d == 100 * sim[2] * lo * hi
        n == 100 * sim[1] * lo * hi
             + (IF min_len >= 3 THEN 15 * PrefixMatch(query, candidate) * sim[2] * hi ELSE 0)
             - 10 * (max_len - min_len) * sim[2] * lo
        clamped == IF n < 0 THEN 0 ELSE IF n > d THEN d ELSE n
    IN  <<clamped, d>>

_calculate_match_score(query, candidate) ==
    Weighted(query, candidate, ratio(query, candidate))

\* the full name of the first candidate whose score is above all earlier ones
\* if score > best_score: the index of the first of the greatest scores
FirstGreatest(score) ==
    CHOOSE i \in 1..Len(score) :
        /\ \A j \in 1..Len(score) :
              ~FractionLess(score[i][1], score[i][2], score[j][1], score[j][2])
        /\ \A j \in 1..(i - 1) :
              FractionLess(score[j][1], score[j][2], score[i][1], score[i][2])

\* best_match if best_score >= 0.65, else the author when it is short enough
ScoredOf(author, cands, score) ==
    IF /\ cands # <<>>
       /\ ~FractionLess(score[FirstGreatest(score)][1], score[FirstGreatest(score)][2], 65, 100)
    THEN Some(cands[FirstGreatest(score)].full)
    ELSE IF Len(author) <= 200 THEN Some(author)
    ELSE None

\* _calculate_match_score of the lowered strings, + 0.1 for the first word of the name
MatchScore(author, c) ==
    PlusHundredths(_calculate_match_score(lower(author), lower(c.cand)),
                   IF c.cand = split(c.full)[1] THEN 10 ELSE 0)

ScoredAmong(author, cands) ==
    ScoredOf(author, cands, [i \in 1..Len(cands) |-> MatchScore(author, cands[i])])

BestScored(author, authors) == ScoredAmong(author, AuthorCandidates(authors))

AllNull == [exc |-> "none", author |-> None, genre |-> None,
            published_year |-> None, search_query |-> None]

\* the record with no field set and the query dropped
NothingExtracted(query) == AllNull

\* the record with only search_query set, to the query
RawQuery(query) == [AllNull EXCEPT !.search_query = Some(query)]

ValidatedAuthor(value, available_authors) ==
    LET author == strip(value.s)
        exact == ExactMatches(author, available_authors)
    IN  IF value.kind # "str" \/ author = "" THEN None
        ELSE IF available_authors = <<>>
             THEN (IF Len(author) <= 200 THEN Some(author) ELSE None)
        ELSE IF exact # {} THEN Some(available_authors[CHOOSE i \in exact : TRUE])
        ELSE BestScored(author, available_authors)

ValidatedGenre(value, available_genres) ==
    LET genre == strip(value.s)
        exact == ExactMatches(genre, available_genres)
        matches == get_close_matches(genre, available_genres, 40)
    IN  IF value.kind # "str" \/ genre = "" THEN None
        ELSE IF available_genres = <<>>
             THEN (IF Len(genre) <= 50 THEN Some(genre) ELSE None)
        ELSE IF exact # {} THEN Some(available_genres[CHOOSE i \in exact : TRUE])
        ELSE IF matches # <<>> THEN Some(matches[1])
        ELSE IF Len(genre) <= 50 THEN Some(genre)
        ELSE None

\* int(filters["published_year"]) within [1000, 2100]
ValidatedYear(value) ==
    LET digits == strip(value.s)
        year == IF value.kind = "int" THEN value.n ELSE DigitsValue(digits)
    IN  IF value.kind = "null" THEN None
        ELSE IF value.kind = "str" /\ (digits = "" \/ ~IsNumber(digits) \/ Len(digits) > 6)
             THEN None
        ELSE IF 1000 <= year /\ year <= 2100 THEN Some(year)
        ELSE None

ValidatedSearch(value) ==
    LET search == strip(value.s)
    IN  IF value.kind = "str" /\ search # "" /\ Len(search) <= 500 THEN Some(search)
        ELSE None

validate_filters(filters, available_genres, available_authors) ==
    IF filters.form # "object" THEN [AllNull EXCEPT !.exc = "AttributeError"]
    ELSE IF /\ filters.author.kind = "str" /\ strip(filters.author.s) # ""
            /\ ExactMatches(strip(filters.author.s), available_authors) = {}
            /\ \E i \in 1..Len(available_authors) : split(available_authors[i]) = <<>>
         THEN [AllNull EXCEPT !.exc = "IndexError"]
    ELSE [exc |-> "none",
          author |-> ValidatedAuthor(filters.author, available_authors),
          genre |-> ValidatedGenre(filters.genre, available_genres),
          published_year |-> ValidatedYear(filters.published_year),
          search_query |-> ValidatedSearch(filters.search_query)]

\* What the oracle does with the filter-extraction prompt: it raises, or its
\* answer (the fences cut off) parses to `json`.
FilterOracleRaises(message) == [raised |-> TRUE, message |-> message, json |-> NotJson]

FilterOracleAnswers(json) == [raised |-> FALSE, message |-> "", json |-> json]

\* except Exception: the raw query, when validate_filters raised
OrRawQuery(validated, query) == IF validated.exc # "none" THEN RawQuery(query) ELSE validated

nl_to_filters(query, available_genres, available_authors, api_key, oracle) ==
    IF strip(query) = "" THEN AllNull
    ELSE IF ~api_key THEN RawQuery(query)
    ELSE IF oracle.raised THEN RawQuery(query)
    ELSE IF oracle.json.form = "malformed" THEN RawQuery(query)
    ELSE OrRawQuery(validate_filters(oracle.json, available_genres, available_authors), query)

\* AIService.nl_to_filters_validated
nl_to_filters_validated(query, vocabulary, api_key, oracle) ==
    IF query = "" THEN AllNull
    ELSE IF Len(query) > 500
         THEN [AllNull EXCEPT !.exc = "ValueError"]
    ELSE nl_to_filters(strip(query), vocabulary.genres, vocabulary.authors, api_key, oracle)

\* ------------------------------------------------------------- the table
Ids == DOMAIN store

BookRows == [created_at : 1..MaxTime, matches : BOOLEAN, rank : 0..MaxRank]

\* The rows a request's WHERE conditions keep (ILIKE keywords, structured
\* filters or the raw predicate): the storage engine decides it per row.
Matching == {b \in Ids : store[b].matches}

\* The rows of the FTS+trigram tier: search_vector @@ query OR similarity > 0.2,
\* and the structured filters; rank is the combined rank of such a row.
FtsCandidates == {b \in Ids : store[b].rank > 0}

\* ----------------------------------------------------------- cursor tokens
\* A JSON value of a cursor payload: <<kind, n>>.
Absent == <<"absent", 0>>

IntVal(n) == <<"int", n>>

\* datetime.isoformat() of the timestamp t
isoformat(t) == <<"iso", t>>

NoCursor == [form |-> "none", created_at |-> Absent, id |-> Absent, offset |-> Absent]

JsonObject(c, i, o) == [form |-> "object", created_at |-> c, id |-> i, offset |-> o]

_encode_cursor(created_at, id) == JsonObject(isoformat(created_at), IntVal(id), Absent)

_encode_rank_cursor(offset) == JsonObject(Absent, Absent, IntVal(offset))

\* ------------------------------------------------------ results of a call
Raise(exc, detail) ==
    [exc |-> exc, detail |-> detail, items |-> <<>>, next_cursor |-> NoCursor,
     tier |-> "none", offset |-> 0]

Return(items, next_cursor, tier, offset) ==
    [exc |-> "none", detail |-> "", items |-> items, next_cursor |-> next_cursor,
     tier |-> tier, offset |-> offset]

\* no page was requested yet
NoPage == [cursor |-> NoCursor, res |-> Raise("norequest", "")]

\* base64.b64decode + json.loads of _decode_cursor / _decode_rank_cursor
DecodeFails(cursor) == cursor.form \in {"notbase64", "notjson"}

\* int(payload.get("offset", 0)): the exceptions are caught and re-raised as ValueError
_decode_rank_cursor(cursor) ==
    IF DecodeFails(cursor) THEN [ok |-> FALSE, offset |-> 0]
    ELSE IF cursor.form # "object" THEN [ok |-> FALSE, offset |-> 0]
    ELSE IF cursor.offset = Absent THEN [ok |-> TRUE, offset |-> 0]
    ELSE IF cursor.offset[1] \in {"int", "digits", "float"} THEN [ok |-> TRUE, offset |-> cursor.offset[2]]
    ELSE [ok |-> FALSE, offset |-> 0]

\* ------------------------------------------------- BaseRepository.list
\* The cursor condition of list: created_at past the cursor's, or equal with
\* the id past the cursor's id (">" for asc, "<" for desc).
AfterCursorNoTieBreak(sort_order, created_at, cursor_id, b) ==
    IF sort_order = "asc"
    THEN store[b].created_at > created_at
    ELSE store[b].created_at < created_at

AfterCursor(sort_order, created_at, cursor_id, b) ==
    IF sort_order = "asc"
    THEN \/ store[b].created_at > created_at
         \/ store[b].created_at = created_at /\ b > cursor_id
    ELSE \/ store[b].created_at < created_at
         \/ store[b].created_at = created_at /\ b < cursor_id

\* ORDER BY created_at, id (both asc or both desc): a precedes b
Precedes(sort_order, a, b) ==
    IF sort_order = "asc"
    THEN \/ store[a].created_at < store[b].created_at
         \/ store[a].created_at = store[b].created_at /\ a < b
    ELSE \/ store[a].created_at > store[b].created_at
         \/ store[a].created_at = store[b].created_at /\ a > b

RECURSIVE OrderByCreatedAtId(_, _)
OrderByCreatedAtId(S, sort_order) ==
    IF S = {} THEN <<>>
    ELSE LET first == CHOOSE a \in S : \A b \in S \ {a} : Precedes(sort_order, a, b)
         IN  <<first>> \o OrderByCreatedAtId(S \ {first}, sort_order)

\* len(rows) > limit, rows being the limit + 1 rows fetched
has_more_off_by_one(rows, limit) == Len(rows) >= limit

has_more(rows, limit) == Len(rows) > limit

\* statement.limit(limit + 1)
FetchCountNoProbe(limit) == limit

FetchCount(limit) == limit + 1

\* order_by, limit(limit + 1), items[:limit], next_cursor of the last item kept
ListPage(rowset, limit, sort_order) ==
    LET rows == Take(OrderByCreatedAtId(rowset, sort_order), FetchCount(limit))
        items == Take(rows, limit)
    IN  IF has_more(rows, limit)
        THEN Return(items,
                    _encode_cursor(store[items[Len(items)]].created_at, items[Len(items)]),
                    "list", 0)
        ELSE Return(rows, NoCursor, "list", 0)

\* filtered: the call carries a search_query or custom filters
list(limit, cursor, filtered, sort_order) ==
    LET kept == IF filtered THEN Matching ELSE Ids
    IN  IF cursor.form = "none" THEN ListPage(kept, limit, sort_order)
        ELSE IF DecodeFails(cursor) THEN Raise("ValueError", "Invalid cursor format")
        ELSE IF cursor.form # "object" THEN Raise("TypeError", "indices must be integers")
        ELSE IF cursor.created_at = Absent THEN Raise("KeyError", "created_at")
        ELSE IF cursor.created_at[1] = "str"
             THEN Raise("ValueError", "Invalid isoformat string")
        ELSE IF cursor.created_at[1] # "iso"
             THEN Raise("TypeError", "fromisoformat: argument must be str")
        ELSE IF cursor.id = Absent THEN Raise("KeyError", "id")
        ELSE ListPage({b \in kept : AfterCursor(sort_order, cursor.created_at[2],
                                                cursor.id[2], b)},
                      limit, sort_order)

\* ------------------------------------------ the offset-paginated searches
Perms(S) ==
    {p \in [1..Cardinality(S) -> S] : \A i, j \in 1..Cardinality(S) : i # j => p[i] # p[j]}

\* ORDER BY created_at asc / desc, and nothing else
ByCreatedAt(sort_order, a, b) ==
    IF sort_order = "asc"
    THEN store[a].created_at < store[b].created_at
    ELSE store[a].created_at > store[b].created_at

\* ORDER BY combined_rank DESC, created_at DESC
ByRankThenCreatedAt(a, b) ==
    \/ store[a].rank > store[b].rank
    \/ store[a].rank = store[b].rank /\ store[a].created_at > store[b].created_at

\* The ORDER BY clause order_by puts row a before row b
OrderedBefore(order_by, a, b) ==
    IF order_by = "rank" THEN ByRankThenCreatedAt(a, b) ELSE ByCreatedAt(order_by, a, b)

\* The row orders the storage engine may produce for ORDER BY keys that do not
\* decide the order of every two rows: rows with equal keys come in any order,
\* chosen anew by each query.
RowOrders(S, order_by) ==
    {p \in Perms(S) :
        \A i, j \in 1..Cardinality(S) : i < j => ~OrderedBefore(order_by, p[j], p[i])}

\* offset(offset).limit(limit + 1), rows[:limit], next_cursor = offset + limit
OffsetPage(order, offset, limit, tier) ==
    LET rest == IF offset >= Len(order) THEN <<>> ELSE Drop(order, offset)
        rows == Take(rest, FetchCount(limit))
    IN  Return(Take(rows, limit),
               IF has_more(rows, limit) THEN _encode_rank_cursor(offset + limit)
               ELSE NoCursor,
               tier, offset)

\* The results search_books_ilike may return.
search_books_ilike(limit, cursor, sort_order) ==
    LET dec == IF cursor.form = "none" THEN [ok |-> TRUE, offset |-> 0]
               ELSE _decode_rank_cursor(cursor)
    IN  IF ~dec.ok THEN {Raise("ValueError", "Invalid cursor format")}
        ELSE {OffsetPage(order, dec.offset, limit, "ilike") :
                order \in RowOrders(Matching, sort_order)}

\* The results search_books_with_where_clause may return for a predicate the
\* storage engine can evaluate.
search_books_with_where_clause(limit, cursor, sort_order) ==
    LET dec == IF cursor.form = "none" THEN [ok |-> TRUE, offset |-> 0]
               ELSE _decode_rank_cursor(cursor)
    IN  IF ~dec.ok THEN {Raise("ValueError", "Invalid cursor format")}
        ELSE {OffsetPage(order, dec.offset, limit, "where") :
                order \in RowOrders(Matching, sort_order)}

\* search_books_fts, had it returned the page of the ranked tier also when that
\* page holds no row
search_books_fts_without_fallback(query, limit, cursor, sort_order) ==
    LET dec == IF cursor.form = "none" THEN [ok |-> TRUE, offset |-> 0]
               ELSE _decode_rank_cursor(cursor)
    IN  IF ~(query /\ is_postgres) THEN {list(limit, cursor, TRUE, sort_order)}
        ELSE IF ~dec.ok THEN {Raise("ValueError", "Invalid cursor format")}
        ELSE {OffsetPage(order, dec.offset, limit, "fts") :
                order \in RowOrders(FtsCandidates, "rank")}

\* The results search_books_fts may return: the ranked tier when there is a
\* text query, the store is PostgreSQL and the tier has rows at the offset,
\* otherwise BaseRepository.list with the same cursor.
search_books_fts(query, limit, cursor, sort_order) ==
    LET fallback == {list(limit, cursor, TRUE, sort_order)}
        dec == IF cursor.form = "none" THEN [ok |-> TRUE, offset |-> 0]
               ELSE _decode_rank_cursor(cursor)
    IN  IF ~(query /\ is_postgres) THEN fallback
        ELSE IF ~dec.ok THEN {Raise("ValueError", "Invalid cursor format")}
        ELSE UNION {LET r == OffsetPage(order, dec.offset, limit, "fts")
                    IN  IF r.items # <<>> THEN {r} ELSE fallback :
                      order \in RowOrders(FtsCandidates, "rank")}

\* ------------------------------------------- calls made on their own: idle
NoFuzzy ==
    [fn |-> "none", field |-> "none", candidate |-> "", vocabulary |-> <<>>,
     state |-> "none", result |-> [exc |-> "none", value |-> None]]

NoExtraction ==
    [query |-> "", api_key |-> FALSE, oracle |-> FilterOracleAnswers(NotJson),
     vocabulary |-> [authors |-> <<>>, genres |-> <<>>], state |-> "none",
     result |-> AllNull]

NoFts ==
    [books |-> <<>>, query |-> FALSE, author |-> None, genre |-> None,
     published_year |-> None, postgres |-> TRUE, limit |-> 1, sort_order |-> "desc",
     state |-> "none", tier |-> "none", items |-> <<>>]

NoCall ==
    [op |-> "none", user_id |-> 0, error |-> "", before |-> 0, had_active |-> FALSE,
     free |-> FALSE,
           was_returned |-> FALSE, allowed |-> FALSE]

NoLending == [borrowings |-> <<>>, now |-> 1, last |-> NoCall]

NoBookCall == [op |-> "none", error |-> "", before |-> {}, clash |-> FALSE]

NoCatalog == [books |-> {}, next_id |-> 1, last |-> NoBookCall]

NoReviewCall == [op |-> "none", error |-> "", before |-> <<>>, asked |-> FALSE,
                 borrowed |-> FALSE, reviewed |-> FALSE]

NoReviewing == [reviews |-> <<>>, last |-> NoReviewCall]

NoKeywords == [fn |-> "none", query |-> "", token |-> "", state |-> "idle",
               returned |-> {}, returned_with_token |-> {}]

NoDesk == [borrowings |-> <<>>, requests |-> <<>>]

IdleOthers ==
    fuzzy = NoFuzzy /\ extraction = NoExtraction /\ fts = NoFts /\ lending = NoLending
    /\ catalog = NoCatalog /\ reviewing = NoReviewing /\ kwsearch = NoKeywords
    /\ desk = NoDesk

\* ------------------------------------------------------- the HTTP endpoints
\* A compound cursor as _encode_cursor writes it / an offset cursor as
\* _encode_rank_cursor writes it
ValidCompound(cursor) ==
    cursor.form = "object" /\ cursor.created_at[1] = "iso" /\ cursor.id[1] = "int"

ValidOffset(cursor) == cursor.form = "object" /\ cursor.offset[1] = "int"

\* The cursor strings a client may send.
CursorTokens ==
    {NoCursor, _encode_rank_cursor(1), _encode_cursor(1, 1),
     [NoCursor EXCEPT !.form = "notbase64"],
     [NoCursor EXCEPT !.form = "notjson"],
     [NoCursor EXCEPT !.form = "array"],
     JsonObject(Absent, Absent, Absent),
     JsonObject(isoformat(1), Absent, Absent),
     JsonObject(<<"str", 0>>, IntVal(1), Absent),
     JsonObject(Absent, Absent, <<"str", 0>>),
     JsonObject(Absent, Absent, <<"float", 1>>)}

NoHttp ==
    [endpoint |-> "none", filtered |-> FALSE, search |-> FALSE, limit |-> 1,
     cursor |-> NoCursor, sort_order |-> "desc", status |-> 0, detail |-> "", exc |-> "none"]

\* GET /books: list_books of books_route; ValueError becomes 400 with str(e) as
\* detail, any other exception leaves the handler
GetBooks ==
    /\ http.endpoint = "GET /books" /\ http.status = 0
    /\ \E r \in (IF http.filtered
                 THEN search_books_fts(http.search, http.limit, http.cursor, http.sort_order)
                 ELSE {list(http.limit, http.cursor, FALSE, http.sort_order)}) :
         http' = [http EXCEPT !.exc = r.exc,
                              !.status = IF r.exc = "none" THEN 200
                                         ELSE IF r.exc = "ValueError" THEN 400 ELSE 500,
                              !.detail = IF r.exc = "none" THEN ""
                                         ELSE IF r.exc = "ValueError" THEN r.detail
                                         ELSE "Internal Server Error"]
    /\ UNCHANGED <<store, is_postgres, walk, page, again, vocab, validation, nl, others>>

NoResponse ==
    [status |-> 0, detail |-> "", method |-> "", where_clause |-> None, books |-> <<>>,
     next_cursor |-> NoCursor, fallback_used |-> FALSE, fallback_reason |-> None]

HttpError(status, detail) == [NoResponse EXCEPT !.status = status, !.detail = detail]

NoSqlResult ==
    [exc |-> "none", success |-> FALSE, where_clause |-> None, error |-> None,
     fallback_reason |-> None, attempted_clause |-> None, oracle_called |-> FALSE,
     validated |-> None]

NoRequest ==
    [pc |-> "idle", query |-> "", limit |-> 1, cursor |-> NoCursor, sort_order |-> "asc",
     api_key |-> FALSE, sql_result |-> NoSqlResult, filters |-> AllNull, calls |-> <<>>,
     passed |-> <<>>, executed |-> <<>>, response |-> NoResponse,
     \* the oracle calls of this request that are never answered
     silent |-> {}]

NoValidation == [clause |-> "", state |-> "none", verdict |-> Rejected("")]

RECURSIVE Doubled(_, _)
Doubled(s, times) == IF times = 0 THEN s ELSE Doubled(s \o s, times - 1)

\* a query of 512 characters
LongQuery == Doubled("q", 9)

Queries == {"", "   ", "python books", LongQuery}

OracleTexts ==
    {"", "I cannot help with that.",
     "title ILIKE '%python%'",
     "~~~sql\ntitle ILIKE '%python%' OR description ILIKE '%python%'\n~~~",
     "WHERE genre = 'Technology'",
     "author ILIKE '%hirenn%'",
     "author ILIKE '%jack%'",
     "genre ILIKE '%sci-fic%' AND EXTRACT(YEAR FROM published_date) = 2020",
     "published_date ILIKE '%2020%'",
     "title ILIKE '%update%'",
     "title ILIKE '%test%'; DROP TABLE books",
     "title ILIKE '%test%' UNION SELECT * FROM users",
     "title IN (SELECT title FROM books)",
     "password ILIKE '%admin%'"}

OracleErrors ==
    {"429 Resource has been exhausted (e.g. check quota).",
     "Event loop is closed",
     "500 An internal error has occurred."}

TranslationOutcomes ==
    {OracleRaises(m) : m \in OracleErrors} \cup {OracleAnswers(t) : t \in OracleTexts}

FilterOutcomes ==
    {FilterOracleRaises("Event loop is closed"),
     FilterOracleAnswers(NotJson),
     FilterOracleAnswers(JsonArray),
     FilterOracleAnswers(JsonFilters(JNull, JNull, JNull, JNull)),
     FilterOracleAnswers(JsonFilters(JStr("hirenn"), JStr("sci-fic"), JInt(2020),
                                     JStr("python")))}

\* get_all_authors / get_all_genres of the stored books
Vocabularies ==
    {[authors |-> <<>>, genres |-> <<>>],
     [authors |-> <<"Hiren Patel", "Union Jack">>, genres |-> <<"Science Fiction", "Technology">>],
     [authors |-> <<"Stephen King", " ">>, genres |-> <<"Horror">>]}

\* POST /ai/books/search_nl, step 1: sql_result = await nl_to_sql_where(query)
Translate ==
    /\ nl.pc = "received"
    /\ \E oracle \in TranslationOutcomes :
         \E r \in {nl_to_sql_where(nl.query, nl.api_key, oracle, vocab)} :
             /\ nl' = [nl EXCEPT
                         !.sql_result = r,
                         !.calls = @ \o <<"nl_to_sql_where">>
                                     \o (IF r.oracle_called THEN <<"oracle">> ELSE <<>>)
                                     \o (IF r.validated # None
                                         THEN <<"validate_where_clause">> ELSE <<>>),
                         !.pc = IF r.exc # "none" THEN "responded"
                                ELSE IF r.success THEN "predicate" ELSE "extraction",
                         !.response = IF r.exc # "none"
                                      THEN HttpError(500, "Internal Server Error") ELSE @]
             /\ validation' = IF r.validated = None THEN validation
                              ELSE [clause |-> r.validated[1], state |-> "done",
                                    verdict |-> validate_where_clause(r.validated[1])]
    /\ UNCHANGED <<store, is_postgres, walk, page, again, http, vocab, others>>

\* where_clause.replace(" ILIKE ", " LIKE ").replace("ILIKE ", "LIKE ") on SQLite
SqliteRewrite(where_clause) ==
    IF is_postgres THEN where_clause
    ELSE replace(replace(where_clause, " ILIKE ", " LIKE "), "ILIKE ", "LIKE ")

\* step 4, had the route gone on to filter extraction after a predicate search
\* that returned
ExecutePredicateThenExtract ==
    /\ nl.pc = "predicate"
    /\ \E r \in search_books_with_where_clause(nl.limit, nl.cursor, nl.sort_order)
                \cup {Raise("DBAPIError", "")} :
         nl' = [nl EXCEPT
                  !.calls = @ \o <<"search_books_with_where_clause">>,
                  !.passed = @ \o <<nl.sql_result.where_clause[1]>>,
                  !.executed = IF r.exc = "ValueError" THEN @
                               ELSE @ \o <<SqliteRewrite(nl.sql_result.where_clause[1])>>,
                  !.pc = "extraction",
                  !.response = IF r.exc # "none" THEN @
                               ELSE [status |-> 200, detail |-> "",
                                     method |-> "sql_where_clause",
                                     where_clause |-> nl.sql_result.where_clause,
                                     books |-> r.items, next_cursor |-> r.next_cursor,
                                     fallback_used |-> FALSE, fallback_reason |-> None]]
    /\ UNCHANGED <<store, is_postgres, walk, page, again, http, vocab, validation, others>>

\* step 4: search_books_with_where_clause(sql_result["where_clause"], ...); the
\* storage engine evaluates the predicate or rejects the statement, and any
\* exception sends the request on to filter extraction
ExecutePredicate ==
    /\ nl.pc = "predicate"
    /\ \E r \in search_books_with_where_clause(nl.limit, nl.cursor, nl.sort_order)
                \cup {Raise("DBAPIError", "")} :
         nl' = [nl EXCEPT
                  !.calls = @ \o <<"search_books_with_where_clause">>,
                  !.passed = @ \o <<nl.sql_result.where_clause[1]>>,
                  !.executed = IF r.exc = "ValueError" THEN @
                               ELSE @ \o <<SqliteRewrite(nl.sql_result.where_clause[1])>>,
                  !.pc = IF r.exc = "none" THEN "responded" ELSE "extraction",
                  !.response = IF r.exc # "none" THEN @
                               ELSE [status |-> 200, detail |-> "",
                                     method |-> "sql_where_clause",
                                     where_clause |-> nl.sql_result.where_clause,
                                     books |-> r.items, next_cursor |-> r.next_cursor,
                                     fallback_used |-> FALSE, fallback_reason |-> None]]
    /\ UNCHANGED <<store, is_postgres, walk, page, again, http, vocab, validation, others>>

\* the filter-extraction oracle is called for this query
FilterOracleCalled(query, api_key) ==
    query # "" /\ Len(query) <= 500 /\ strip(query) # "" /\ api_key

\* fallback step 1: filters = await ai_service.nl_to_filters_validated(query)
ExtractFilters ==
    /\ nl.pc = "extraction"
    /\ \E oracle \in FilterOutcomes :
         \E filters \in {nl_to_filters_validated(nl.query, vocab, nl.api_key, oracle)} :
             nl' = [nl EXCEPT
                      !.filters = filters,
                      !.calls = @ \o <<"nl_to_filters_validated">>
                                  \o (IF FilterOracleCalled(nl.query, nl.api_key)
                                      THEN <<"oracle">> ELSE <<>>),
                      !.pc = IF filters.exc # "none" THEN "responded" ELSE "search",
                      !.response = IF filters.exc = "none" THEN @
                                   ELSE IF filters.exc = "ValueError"
                                   THEN HttpError(400, "Query too long (max 500 characters)")
                                   ELSE HttpError(500, "AI search service unavailable")]
    /\ UNCHANGED <<store, is_postgres, walk, page, again, http, vocab, validation, others>>

\* fallback step 3: book_service.search_books_ilike(...) and the response
KeywordSearch ==
    /\ nl.pc = "search"
    /\ \E r \in search_books_ilike(nl.limit, nl.cursor, nl.sort_order) :
         nl' = [nl EXCEPT
                  !.calls = @ \o <<"search_books_ilike">>,
                  !.pc = "responded",
                  !.response = IF r.exc = "ValueError" THEN HttpError(400, r.detail)
                               ELSE IF r.exc # "none"
                               THEN HttpError(500, "AI search service unavailable")
                               ELSE [status |-> 200, detail |-> "",
                                     method |-> "filter_extraction",
                                     where_clause |-> None,
                                     books |-> r.items, next_cursor |-> r.next_cursor,
                                     fallback_used |-> TRUE,
                                     fallback_reason |-> nl.sql_result.fallback_reason]]
    /\ UNCHANGED <<store, is_postgres, walk, page, again, http, vocab, validation, others>>

\* The stores of the endpoint runs: no book, or two matching books created at
\* the same time, without or with a full-text rank.
HttpStores ==
    {<<>>,
     [i \in 1..2 |-> [created_at |-> 1, matches |-> TRUE, rank |-> 0]],
     [i \in 1..2 |-> [created_at |-> 1, matches |-> TRUE, rank |-> 1]]}

IdleWalk ==
    [strategy |-> "none", query |-> FALSE, limit |-> 1, sort_order |-> "asc",
     cursor |-> NoCursor, got |-> <<>>, pages |-> 0, tiers |-> {},
     failed |-> FALSE, done |-> TRUE]

InitHttp ==
    /\ IdleOthers
    /\ store \in HttpStores
    /\ is_postgres \in BOOLEAN
    /\ vocab \in Vocabularies
    /\ store = <<>> => vocab.authors = <<>>
    /\ walk = IdleWalk /\ page = NoPage /\ again = NoPage
    /\ validation = NoValidation
    /\ \/ /\ nl = NoRequest
          /\ vocab.authors = <<>>
          /\ \E f \in BOOLEAN, s \in BOOLEAN, c \in CursorTokens, o \in {"asc", "desc"} :
               /\ s => f
               /\ http = [NoHttp EXCEPT !.endpoint = "GET /books", !.filtered = f,
                                        !.search = s, !.cursor = c, !.sort_order = o]
       \/ /\ http = NoHttp
          /\ \A b \in Ids : store[b].rank = 0
          /\ \E q \in Queries, c \in CursorTokens, k \in BOOLEAN :
               \* every cursor string is tried on the requests that need no oracle
               /\ k => c \in {NoCursor, _encode_rank_cursor(1),
                               [NoCursor EXCEPT !.form = "notjson"]}
               /\ nl = [NoRequest EXCEPT !.pc = "received", !.query = q, !.cursor = c,
                                         !.api_key = k]

NextHttp ==
    \/ GetBooks
    \/ Translate
    \/ ExecutePredicate
    \/ ExtractFilters
    \/ KeywordSearch

SpecHttp == InitHttp /\ [][NextHttp]_vars

\* --------------------------------------------- requests under a silent oracle
\* nl_to_sql_where reaches `await model.generate_content_async(...)`
TranslationOracleCalled(query, api_key) == strip(query) # "" /\ api_key

\* step 1 with an oracle that may stay silent: the coroutine is resumed only
\* when generate_content_async returns or raises; no timer is set around it
AwaitTranslate ==
    /\ TranslationOracleCalled(nl.query, nl.api_key) => "nl_to_sql_where" \notin nl.silent
    /\ Translate

\* fallback step 1, resumed only when its oracle call returns or raises
AwaitExtractFilters ==
    /\ FilterOracleCalled(nl.query, nl.api_key) => "nl_to_filters" \notin nl.silent
    /\ ExtractFilters

InitHttpLive ==
    /\ IdleOthers
    /\ store \in HttpStores
    /\ is_postgres \in BOOLEAN
    /\ vocab \in Vocabularies
    /\ store = <<>> => vocab.authors = <<>>
    /\ walk = IdleWalk /\ page = NoPage /\ again = NoPage
    /\ validation = NoValidation
    /\ http = NoHttp
    /\ \A b \in Ids : store[b].rank = 0
    /\ \E q \in {"   ", "python books"}, k \in BOOLEAN,
          quiet \in SUBSET {"nl_to_sql_where", "nl_to_filters"} :
         nl = [NoRequest EXCEPT !.pc = "received", !.query = q, !.api_key = k,
                                !.silent = quiet]

NextHttpLive ==
    \/ AwaitTranslate
    \/ ExecutePredicate
    \/ AwaitExtractFilters
    \/ KeywordSearch

\* the event loop runs every coroutine that can be resumed
SpecHttpLive == InitHttpLive /\ [][NextHttpLive]_vars /\ WF_vars(NextHttpLive)

\* ------------------------------------------------- the validator, on its own
LiteralTexts ==
    {"python", "stephen king", "Technology", "2020-01-01", "update", "Union Jack",
     "a;b", "c--d"}

IlikeCondition(column, text) == column \o " ILIKE '%" \o text \o "%'"

NotIlikeCondition(column, text) == column \o " NOT ILIKE '%" \o text \o "%'"

Comparison(column, operator, text) == column \o " " \o operator \o " '" \o text \o "'"

ExtractYear == "EXTRACT(YEAR FROM published_date) = 2020"

Conditions(texts) ==
    UNION {{IlikeCondition(c, t), NotIlikeCondition(c, t),
            Comparison(c, "=", t), Comparison(c, ">=", t)} :
              c \in ALLOWED_COLUMNS, t \in texts}

\* The predicates built from whitelisted columns, ILIKE / NOT ILIKE / comparison
\* with quoted literals, AND / OR, balanced parentheses and EXTRACT, the
\* literals holding the given texts.
SafePredicates(texts) ==
    Conditions(texts) \cup {ExtractYear}
    \cup {a \o " AND " \o ExtractYear : a \in Conditions(texts)}
    \cup {"(" \o a \o " OR title ILIKE '%test%') AND " \o ExtractYear : a \in Conditions(texts)}

UnsafeClauses ==
    {"", "   ",
     "title ILIKE '%test%'; DELETE FROM books",
     "title ILIKE '%test%' OR 1=1; DROP TABLE books",
     "title ILIKE '%test%' UNION SELECT * FROM users",
     "title IN (SELECT title FROM books WHERE id > 10)",
     "title IN ( select title FROM books)",
     "title ILIKE '%test%' -- malicious comment",
     "title ILIKE '%test%' /* comment */",
     "password ILIKE '%admin%'",
     "(title ILIKE '%test%' AND genre = 'Fiction'",
     "title ILIKE CONCAT('%', 'test', '%')",
     "EXEC sp_executesql 'malicious code'",
     "books.title ILIKE '%test%' JOIN users ON books.user_id = users.id",
     "title ILIKE '%test%'; DeLeTe FROM books",
     "delect all book releted education",
     "delet FROM books WHERE title ILIKE '%test%'",
     "updat books SET price=0",
     "drp TABLE books",
     "insrt INTO books VALUES (...)",
     "deleted FROM books",
     "deletes all records",
     "title ILIKE '%Drop%'",
     "author ILIKE '%Union Jack%'",
     "author ILIKE '%Jon Updates%'",
     "title = 'x' Alter",
     "title ILIKE '%a%' OR Insert"}

Clauses == SafePredicates(LiteralTexts) \cup UnsafeClauses

\* validate_where_clause(clause), called on its own
ValidateWhereClause ==
    /\ validation.state = "pending"
    /\ validation' = [validation EXCEPT !.state = "done",
                                        !.verdict = validate_where_clause(validation.clause)]
    /\ UNCHANGED <<store, is_postgres, walk, page, again, http, vocab, nl, others>>

InitValidator ==
    /\ IdleOthers
    /\ store = <<>> /\ is_postgres = TRUE
    /\ vocab = [authors |-> <<>>, genres |-> <<>>]
    /\ walk = IdleWalk /\ page = NoPage /\ again = NoPage
    /\ http = NoHttp /\ nl = NoRequest
    /\ \E c \in Clauses : validation = [NoValidation EXCEPT !.clause = c, !.state = "pending"]

NextValidator == ValidateWhereClause

SpecValidator == InitValidator /\ [][NextValidator]_vars

\* ------------------------------------------------- the matchers, on their own
\* No search and no request is under way.
IdleSearch ==
    /\ store = <<>> /\ is_postgres = TRUE
    /\ vocab = [authors |-> <<>>, genres |-> <<>>]
    /\ walk = IdleWalk /\ page = NoPage /\ again = NoPage
    /\ http = NoHttp /\ nl = NoRequest /\ validation = NoValidation

\* the values the oracle names, as they reach a matcher
Candidates ==
    {"", "x", "king", "KING", " King ", "hirenn", "jack", "stephen king", "sci-fic",
     "horror", "technology", "tech"}

\* the lists get_all_authors / get_all_genres hand to a matcher, and a list
\* with an entry of only whitespace (a stored author " " is truthy)
MatcherVocabularies ==
    {<<>>,
     <<"Hiren Patel", "Union Jack">>,
     <<"King Kong", "King">>,
     <<"Stephen King", " ">>,
     <<"Science Fiction", "Technology">>,
     <<"Horror">>}

\* what a matcher of the Translator returned: Some(value), or the exception
Returned(m) == [exc |-> m.exc, value |-> IF m.exc = "none" THEN Some(m.value) ELSE None]

FuzzyMatchAuthor ==
    /\ fuzzy.state = "pending" /\ fuzzy.fn = "_fuzzy_match_author"
    /\ \E m \in {_fuzzy_match_author(fuzzy.candidate, fuzzy.vocabulary)} :
         fuzzy' = [fuzzy EXCEPT !.state = "done", !.result = Returned(m)]
    /\ UNCHANGED <<searches, extraction, fts, lending, catalog, reviewing, kwsearch, desk>>

FuzzyMatchGenre ==
    /\ fuzzy.state = "pending" /\ fuzzy.fn = "_fuzzy_match_genre"
    /\ \E m \in {_fuzzy_match_genre(fuzzy.candidate, fuzzy.vocabulary)} :
         fuzzy' = [fuzzy EXCEPT !.state = "done", !.result = Returned(m)]
    /\ UNCHANGED <<searches, extraction, fts, lending, catalog, reviewing, kwsearch, desk>>

\* validate_filters on an answer that names the one field; the vocabulary of
\* the other field is empty
ValidateFilters ==
    /\ fuzzy.state = "pending" /\ fuzzy.fn = "validate_filters"
    /\ \E v \in {IF fuzzy.field = "author"
                 THEN validate_filters(JsonFilters(JStr(fuzzy.candidate), JNull, JNull, JNull),
                                       <<>>, fuzzy.vocabulary)
                 ELSE validate_filters(JsonFilters(JNull, JStr(fuzzy.candidate), JNull, JNull),
                                       fuzzy.vocabulary, <<>>)} :
         fuzzy' = [fuzzy EXCEPT !.state = "done",
                                !.result = [exc |-> v.exc, value |-> v[fuzzy.field]]]
    /\ UNCHANGED <<searches, extraction, fts, lending, catalog, reviewing, kwsearch, desk>>

InitMatcher ==
    /\ IdleSearch
    /\ extraction = NoExtraction /\ fts = NoFts /\ lending = NoLending
    /\ catalog = NoCatalog /\ reviewing = NoReviewing /\ kwsearch = NoKeywords
    /\ desk = NoDesk
    /\ \E fn \in {"_fuzzy_match_author", "_fuzzy_match_genre", "validate_filters"},
          field \in {"author", "genre"}, c \in Candidates, v \in MatcherVocabularies :
         /\ fn = "_fuzzy_match_author" => field = "author"
         /\ fn = "_fuzzy_match_genre" => field = "genre"
         /\ fuzzy = [NoFuzzy EXCEPT !.fn = fn, !.field = field, !.candidate = c,
                                    !.vocabulary = v, !.state = "pending"]

NextMatcher ==
    \/ FuzzyMatchAuthor
    \/ FuzzyMatchGenre
    \/ ValidateFilters

SpecMatcher == InitMatcher /\ [][NextMatcher]_vars

\* ------------------------------------------------ nl_to_filters, on its own
ExtractionQueries == {"", "   ", "python books", " books by hirenn "}

\* what the oracle does with the prompt: the outcomes of the endpoint's
\* requests, and the exceptions of the three fallback reasons
ExtractionOutcomes ==
    FilterOutcomes \cup {FilterOracleRaises(m) : m \in OracleErrors}

NlToFilters ==
    /\ extraction.state = "pending"
    /\ extraction' =
         [extraction EXCEPT
            !.state = "done",
            !.result = nl_to_filters(extraction.query, extraction.vocabulary.genres,
                                     extraction.vocabulary.authors, extraction.api_key,
                                     extraction.oracle)]
    /\ UNCHANGED <<searches, fuzzy, fts, lending, catalog, reviewing, kwsearch, desk>>

InitExtractor ==
    /\ IdleSearch
    /\ fuzzy = NoFuzzy /\ fts = NoFts /\ lending = NoLending /\ catalog = NoCatalog
    /\ reviewing = NoReviewing /\ kwsearch = NoKeywords /\ desk = NoDesk
    /\ \E q \in ExtractionQueries, k \in BOOLEAN, o \in ExtractionOutcomes, v \in Vocabularies :
         extraction = [NoExtraction EXCEPT !.query = q, !.api_key = k, !.oracle = o,
                                           !.vocabulary = v, !.state = "pending"]

NextExtractor == NlToFilters

SpecExtractor == InitExtractor /\ [][NextExtractor]_vars

\* ----------------------------------- search_books_fts, structured filters
\* value ILIKE pattern, both in lower case: % stands for any run of
\* characters and _ for any one character
RECURSIVE LikeMatch(_, _)
LikeMatch(value, pattern) ==
    IF pattern = "" THEN value = ""
    ELSE IF Ch(pattern, 1) = "%"
         THEN \/ LikeMatch(value, SubSeq(pattern, 2, Len(pattern)))
              \/ value # "" /\ LikeMatch(SubSeq(value, 2, Len(value)), pattern)
    ELSE /\ value # ""
         /\ Ch(pattern, 1) \in {"_", Ch(value, 1)}
         /\ LikeMatch(SubSeq(value, 2, Len(value)), SubSeq(pattern, 2, Len(pattern)))

\* column.ilike(pattern)
ilike(value, pattern) == LikeMatch(lower(value), lower(pattern))

\* extract("year", Book.published_date)
YearOf(published_date) == published_date[1]

\* if author / if genre: a string that is given and not empty
GivenText(filter) == filter # None /\ filter[1] # ""

\* if published_year: a number that is given and not 0
GivenYear(filter) == filter # None /\ filter[1] # 0

\* base_filters, as the ranked tier applies them to a row
base_filters(book, author, genre, published_year) ==
    /\ GivenText(author) => ilike(book.author, "%" \o author[1] \o "%")
    /\ GivenText(genre) => ilike(book.genre, "%" \o genre[1] \o "%")
    /\ GivenYear(published_year) => YearOf(book.published_date) = published_year[1]

\* custom_filters, as list applies them to a row
custom_filters(book, author, genre, published_year) ==
    /\ GivenText(author) => ilike(book.author, "%" \o author[1] \o "%")
    /\ GivenText(genre) => ilike(book.genre, "%" \o genre[1] \o "%")
    /\ GivenYear(published_year) => YearOf(book.published_date) = published_year[1]

\* the rows of the ranked tier: the text condition (full-text match or
\* trigram similarity > 0.2, decided by the storage engine: rank > 0) and
\* every base filter
RankedRows(call) ==
    {b \in DOMAIN call.books :
        /\ call.books[b].rank > 0
        /\ base_filters(call.books[b], call.author, call.genre, call.published_year)}

\* the rows of list: every custom filter, and the keyword conditions of the
\* search query when there is one
ListRows(call) ==
    {b \in DOMAIN call.books :
        /\ custom_filters(call.books[b], call.author, call.genre, call.published_year)
        /\ call.query => call.books[b].keywords}

\* ORDER BY combined_rank DESC, created_at DESC: the orders the engine may produce
RankedOrders(call, rows) ==
    {p \in Perms(rows) :
        \A i, j \in 1..Cardinality(rows) :
            i < j => \/ call.books[p[i]].rank > call.books[p[j]].rank
                     \/ /\ call.books[p[i]].rank = call.books[p[j]].rank
                        /\ call.books[p[i]].created_at >= call.books[p[j]].created_at}

\* ORDER BY created_at, id, both asc or both desc
ListOrders(call, rows) ==
    {p \in Perms(rows) :
        \A i, j \in 1..Cardinality(rows) :
            i < j => IF call.sort_order = "asc"
                     THEN \/ call.books[p[i]].created_at < call.books[p[j]].created_at
                          \/ /\ call.books[p[i]].created_at = call.books[p[j]].created_at
                             /\ p[i] < p[j]
                     ELSE \/ call.books[p[i]].created_at > call.books[p[j]].created_at
                          \/ /\ call.books[p[i]].created_at = call.books[p[j]].created_at
                             /\ p[i] > p[j]}

\* the first page of the fallback: self.list(..., custom_filters=...)
FallbackPage(call) ==
    {[tier |-> "list", items |-> Take(order, call.limit)] :
        order \in ListOrders(call, ListRows(call))}

\* the first page of the ranked tier, or the fallback when it holds no row
RankedPage(call, rows) ==
    IF rows = {} THEN FallbackPage(call)
    ELSE {[tier |-> "fts", items |-> Take(order, call.limit)] :
            order \in RankedOrders(call, rows)}

\* search_books_fts(query, author, genre, published_year, limit, cursor=None, sort_order)
FilteredSearch(call) ==
    IF call.query /\ call.postgres THEN RankedPage(call, RankedRows(call))
    ELSE FallbackPage(call)

SearchWithFilters ==
    /\ fts.state = "pending"
    /\ \E r \in FilteredSearch(fts) :
         fts' = [fts EXCEPT !.state = "done", !.tier = r.tier, !.items = r.items]
    /\ UNCHANGED <<searches, fuzzy, extraction, lending, catalog, reviewing, kwsearch, desk>>

\* three stored books; the storage engine's verdicts on the text query are
\* the rank (0: no row of the ranked tier) and keywords (the ILIKE keyword
\* conditions of list)
StoredBooks(ranked, keyword) ==
    <<[author |-> "Stephen King", genre |-> "Horror", published_date |-> <<2020, 5, 1>>,
       created_at |-> 1, rank |-> IF 1 \in ranked THEN 2 ELSE 0, keywords |-> 1 \in keyword],
      [author |-> "axb", genre |-> "Sci-Fi", published_date |-> <<2019, 1, 1>>,
       created_at |-> 1, rank |-> IF 2 \in ranked THEN 1 ELSE 0, keywords |-> 2 \in keyword],
      [author |-> "a_b king", genre |-> "horror story", published_date |-> <<2020, 12, 31>>,
       created_at |-> 2, rank |-> IF 3 \in ranked THEN 1 ELSE 0, keywords |-> 3 \in keyword]>>

AuthorFilters == {None, Some(""), Some("king"), Some("a_b"), Some("%")}

GenreFilters == {None, Some("HORROR"), Some("sci%fi")}

YearFilters == {None, Some(0), Some(2020)}

InitFts ==
    /\ IdleSearch
    /\ fuzzy = NoFuzzy /\ extraction = NoExtraction /\ lending = NoLending
    /\ catalog = NoCatalog /\ reviewing = NoReviewing /\ kwsearch = NoKeywords
    /\ desk = NoDesk
    /\ \E ranked \in SUBSET (1..3), keyword \in {{}, {1, 2}, {1, 2, 3}},
          q \in BOOLEAN, a \in AuthorFilters, g \in GenreFilters, y \in YearFilters,
          pg \in BOOLEAN, o \in {"asc", "desc"}, n \in 1..MaxLimit :
         \* the route calls search_books_fts only with a filter or a query
         /\ q \/ GivenText(a) \/ GivenText(g) \/ GivenYear(y)
         /\ ~q => ranked = {} /\ keyword = {}
         /\ fts = [NoFts EXCEPT !.books = StoredBooks(ranked, keyword), !.query = q,
                                !.author = a, !.genre = g, !.published_year = y,
                                !.postgres = pg, !.limit = n, !.sort_order = o,
                                !.state = "pending"]

NextFts == SearchWithFilters

SpecFts == InitFts /\ [][NextFts]_vars

\* ------------------------------------------------------ BorrowingService
MAX_BOOKS_PER_USER == 1

\* the users that borrow, the stored books, and a book id that is not stored
Borrowers == 1..2

StoredBookIds == 1..2

\* current_user: the borrowers as Members, and an Admin and a Librarian
CurrentUsers ==
    {[id |-> u, role |-> "Member"] : u \in Borrowers}
        \cup {[id |-> 3, role |-> "Admin"], [id |-> 4, role |-> "Librarian"]}

\* the rows of the borrowings table with the given value in the given column
RowsOf(borrowings, column, value) ==
    {i \in 1..Len(borrowings) : borrowings[i][column] = value}

\* ORDER BY created_at ASC, id ASC
RECURSIVE OldestFirst(_, _)
OldestFirst(borrowings, rows) ==
    IF rows = {} THEN <<>>
    ELSE LET first == CHOOSE a \in rows : \A b \in rows :
                          \/ borrowings[a].created_at < borrowings[b].created_at
                          \/ /\ borrowings[a].created_at = borrowings[b].created_at
                             /\ a <= b
         IN  <<first>> \o OldestFirst(borrowings, rows \ {first})

\* ORDER BY created_at DESC, id DESC (the sort order list defaults to)
RECURSIVE NewestFirst(_, _)
NewestFirst(borrowings, rows) ==
    IF rows = {} THEN <<>>
    ELSE LET first == CHOOSE a \in rows : \A b \in rows :
                          \/ borrowings[a].created_at > borrowings[b].created_at
                          \/ /\ borrowings[a].created_at = borrowings[b].created_at
                             /\ a >= b
         IN  <<first>> \o NewestFirst(borrowings, rows \ {first})

\* get_user_borrowings / get_book_borrowings: list(limit, filters={column: value}),
\* the first page
FirstPage(borrowings, column, value, limit) ==
    Take(NewestFirst(borrowings, RowsOf(borrowings, column, value)), limit)

\* sum(1 for b in active_borrowings if b.returned_at is None)
active_count(borrowings, active_borrowings) ==
    Cardinality({k \in 1..Len(active_borrowings) :
                    borrowings[active_borrowings[k]].returned_at = None})

\* the error borrow_book raises, or "" when the borrowing is created
BorrowError(borrowings, user_id, book_id, current_user) ==
    IF user_id # current_user.id /\ current_user.role # "Admin"
    THEN "Cannot borrow books for other users"
    ELSE IF book_id \notin StoredBookIds THEN "Book not found"
    ELSE IF active_count(borrowings, FirstPage(borrowings, "user_id", user_id, UserPageLimit))
              >= MAX_BOOKS_PER_USER
         THEN "You already have a book borrowed. Please return it before borrowing another book"
    ELSE IF active_count(borrowings, FirstPage(borrowings, "book_id", book_id, BookPageLimit))
              > 0
         THEN "Book is currently borrowed"
    ELSE ""

\* the table after borrowing_repo.create(borrowing_data) at the time `now`
Created(borrowings, user_id, book_id, now) ==
    Append(borrowings, [user_id |-> user_id, book_id |-> book_id, created_at |-> now,
                        returned_at |-> None])

\* the error return_book raises, had it no check of returned_at
ReturnErrorUnchecked(borrowings, borrowing_id, current_user) ==
    IF borrowing_id \notin 1..Len(borrowings) THEN "Borrowing not found"
    ELSE IF /\ borrowings[borrowing_id].user_id # current_user.id
            /\ current_user.role \notin {"Admin", "Librarian"}
         THEN "Permission denied"
    ELSE ""

\* the error return_book raises, or ""
ReturnError(borrowings, borrowing_id, current_user) ==
    IF borrowing_id \notin 1..Len(borrowings) THEN "Borrowing not found"
    ELSE IF /\ borrowings[borrowing_id].user_id # current_user.id
            /\ current_user.role \notin {"Admin", "Librarian"}
         THEN "Permission denied"
    ELSE IF borrowings[borrowing_id].returned_at # None THEN "Book already returned"
    ELSE ""

\* BorrowingService.borrow_book(user_id, book_id, current_user), made while no
\* other call of the service is under way; the clock does not run backwards
BorrowBook ==
    /\ Len(lending.borrowings) < MaxBorrowings
    /\ \E user_id \in Borrowers, book_id \in StoredBookIds \cup {3},
          current_user \in CurrentUsers, now \in {lending.now, lending.now + 1} :
         /\ now <= MaxClock
         /\ \E error \in {BorrowError(lending.borrowings, user_id, book_id, current_user)} :
              lending' =
                [borrowings |-> IF error = ""
                                THEN Created(lending.borrowings, user_id, book_id, now)
                                ELSE lending.borrowings,
                 now |-> now,
                 last |-> [op |-> "borrow_book", user_id |-> user_id, error |-> error,
                           was_returned |-> FALSE, allowed |-> FALSE,
                           before |-> Len(lending.borrowings),
                           had_active |->
                               \E i \in 1..Len(lending.borrowings) :
                                   /\ lending.borrowings[i].user_id = user_id
                                   /\ lending.borrowings[i].returned_at = None,
                           free |->
                               /\ book_id \in StoredBookIds
                               /\ current_user.id = user_id \/ current_user.role = "Admin"
                               /\ \A i \in 1..Len(lending.borrowings) :
                                    lending.borrowings[i].returned_at = None =>
                                        /\ lending.borrowings[i].user_id # user_id
                                        /\ lending.borrowings[i].book_id # book_id]]
    /\ UNCHANGED <<searches, fuzzy, extraction, fts, catalog, reviewing, kwsearch, desk>>

\* BorrowingService.return_book(borrowing_id, current_user)
ReturnBook ==
    /\ \E borrowing_id \in 1..MaxBorrowings, current_user \in CurrentUsers,
          now \in {lending.now, lending.now + 1} :
         /\ now <= MaxClock
         /\ \E error \in {ReturnError(lending.borrowings, borrowing_id, current_user)} :
              lending' =
                [borrowings |-> IF error = ""
                                THEN [lending.borrowings EXCEPT
                                        ![borrowing_id].returned_at = Some(now)]
                                ELSE lending.borrowings,
                 now |-> now,
                 last |-> [NoCall EXCEPT
                             !.op = "return_book", !.error = error,
                             !.before = Len(lending.borrowings),
                             !.was_returned =
                                 /\ borrowing_id <= Len(lending.borrowings)
                                 /\ lending.borrowings[borrowing_id].returned_at # None,
                             !.allowed =
                                 /\ borrowing_id <= Len(lending.borrowings)
                                 /\ \/ lending.borrowings[borrowing_id].user_id
                                          = current_user.id
                                    \/ current_user.role \in {"Admin", "Librarian"}]]
    /\ UNCHANGED <<searches, fuzzy, extraction, fts, catalog, reviewing, kwsearch, desk>>

InitLending ==
    /\ IdleSearch
    /\ fuzzy = NoFuzzy /\ extraction = NoExtraction /\ fts = NoFts /\ catalog = NoCatalog
    /\ reviewing = NoReviewing /\ kwsearch = NoKeywords /\ desk = NoDesk
    /\ lending = NoLending

NextLending ==
    \/ BorrowBook
    \/ ReturnBook

SpecLending == InitLending /\ [][NextLending]_vars

\* ------------------------------------------------------------- BookService
Isbns == {"978-1", "978-2"}

\* a field of BookUpdate: not set in the request, set to null, or set to a value
Unset == <<"unset">>

Null == <<"null">>

Value(x) == <<"value", x>>

\* the staff and a member, as current_user.role.name
Roles == {"Admin", "Librarian", "Member"}

\* get_by_isbn(isbn): the stored books with that ISBN
get_by_isbn(books, isbn) == {b \in books : b.isbn = isbn}

\* existing_book and existing_book.id != book_id, had the ISBN never been looked up
IsbnNeverTaken(books, isbn, book_id) == FALSE

\* existing_book and existing_book.id != book_id
IsbnTaken(books, isbn, book_id) == \E b \in get_by_isbn(books, isbn) : b.id # book_id

\* the error create_book raises, or ""
CreateError(books, isbn, role) ==
    IF role \notin {"Admin", "Librarian"} THEN "Only Admin or Librarian can create books"
    ELSE IF get_by_isbn(books, isbn) # {} THEN "Book with this ISBN already exists"
    ELSE ""

\* the error update_book raises, or ""; "isbn" in update_dict, and get_by_isbn(None)
\* finds no book
UpdateError(books, book_id, update_dict, role) ==
    IF role \notin {"Admin", "Librarian"} THEN "Only Admin or Librarian can update books"
    ELSE IF update_dict.isbn[1] = "value" /\ IsbnTaken(books, update_dict.isbn[2], book_id)
         THEN "Book with this ISBN already exists"
    ELSE IF \A b \in books : b.id # book_id THEN "Book not found"
    ELSE ""

\* BaseRepository.update: setattr for every field of the data that is not None
Updated(book, update_dict) ==
    [id |-> book.id,
     isbn |-> IF update_dict.isbn[1] = "value" THEN update_dict.isbn[2] ELSE book.isbn,
     title |-> IF update_dict.title[1] = "value" THEN update_dict.title[2] ELSE book.title]

\* BookService.create_book(book_data, current_user)
CreateBook ==
    /\ catalog.next_id <= MaxBookId
    /\ \E isbn \in Isbns, role \in Roles :
         \E error \in {CreateError(catalog.books, isbn, role)} :
            catalog' =
              [books |-> IF error # "" THEN catalog.books
                         ELSE catalog.books \cup
                                {[id |-> catalog.next_id, isbn |-> isbn, title |-> "t1"]},
               next_id |-> IF error # "" THEN catalog.next_id ELSE catalog.next_id + 1,
               last |-> [op |-> "create_book", error |-> error, before |-> catalog.books,
                         clash |-> \E b \in catalog.books : b.isbn = isbn]]
    /\ UNCHANGED <<searches, fuzzy, extraction, fts, lending, reviewing, kwsearch, desk>>

\* BookService.update_book(book_id, book_data, current_user)
UpdateBook ==
    /\ \E book_id \in 1..MaxBookId, role \in Roles,
          isbn \in {Unset, Null} \cup {Value(i) : i \in Isbns},
          title \in {Unset, Value("t2")} :
         \E error \in {UpdateError(catalog.books, book_id,
                                   [isbn |-> isbn, title |-> title], role)} :
            catalog' =
              [catalog EXCEPT
                 !.books = IF error # "" THEN @
                           ELSE {IF b.id = book_id
                                 THEN Updated(b, [isbn |-> isbn, title |-> title])
                                 ELSE b : b \in @},
                 !.last = [op |-> "update_book", error |-> error, before |-> catalog.books,
                           clash |-> /\ isbn[1] = "value"
                                     /\ \E b \in catalog.books : b.id = book_id
                                     /\ \E b \in catalog.books :
                                          b.id # book_id /\ b.isbn = isbn[2]]]
    /\ UNCHANGED <<searches, fuzzy, extraction, fts, lending, reviewing, kwsearch, desk>>

\* BookService.delete_book(book_id, current_user)
DeleteBook ==
    /\ \E book_id \in 1..MaxBookId, role \in Roles :
         catalog' =
           [catalog EXCEPT
              !.books = IF role \notin {"Admin", "Librarian"} THEN @
                        ELSE {b \in @ : b.id # book_id},
              !.last = [op |-> "delete_book",
                        error |-> IF role \notin {"Admin", "Librarian"}
                                  THEN "Only Admin or Librarian can delete books" ELSE "",
                        before |-> catalog.books, clash |-> FALSE]]
    /\ UNCHANGED <<searches, fuzzy, extraction, fts, lending, reviewing, kwsearch, desk>>

InitCatalog ==
    /\ IdleSearch
    /\ fuzzy = NoFuzzy /\ extraction = NoExtraction /\ fts = NoFts /\ lending = NoLending
    /\ reviewing = NoReviewing /\ kwsearch = NoKeywords /\ desk = NoDesk
    /\ catalog = NoCatalog

NextCatalog ==
    \/ CreateBook
    \/ UpdateBook
    \/ DeleteBook

SpecCatalog == InitCatalog /\ [][NextCatalog]_vars

\* ----------------------------------------------------------- ReviewService
\* any(borrowing.book_id == review_data.book_id for borrowing in user_borrowings)
has_borrowed(borrowings, user_borrowings, book_id) ==
    \E k \in 1..Len(user_borrowings) : borrowings[user_borrowings[k]].book_id = book_id

\* get_user_review_for_book(user_id, book_id): the reviews of that user for that book
get_user_review_for_book(reviews, user_id, book_id) ==
    {i \in 1..Len(reviews) : reviews[i].user_id = user_id /\ reviews[i].book_id = book_id}

\* the error create_review raises, or "" when the review is created
ReviewError(borrowings, reviews, user_id, book_id, current_user) ==
    IF user_id # current_user.id THEN "Cannot create review for other users"
    ELSE IF book_id \notin StoredBookIds THEN "Book not found"
    ELSE IF ~has_borrowed(borrowings,
                          FirstPage(borrowings, "user_id", current_user.id, UserPageLimit),
                          book_id)
         THEN "You can only review books you have borrowed"
    ELSE IF get_user_review_for_book(reviews, user_id, book_id) # {}
         THEN "You have already reviewed this book"
    ELSE ""

\* ReviewService.create_review(review_data, current_user), made while no other
\* call is under way
CreateReview ==
    /\ Len(reviewing.reviews) < MaxReviews
    /\ \E user_id \in Borrowers, book_id \in StoredBookIds \cup {3},
          current_user \in CurrentUsers :
         \E error \in {ReviewError(lending.borrowings, reviewing.reviews,
                                   user_id, book_id, current_user)} :
            reviewing' =
              [reviews |-> IF error = ""
                           THEN Append(reviewing.reviews,
                                       [user_id |-> user_id, book_id |-> book_id])
                           ELSE reviewing.reviews,
               last |-> [op |-> "create_review", error |-> error,
                         before |-> reviewing.reviews,
                         asked |-> /\ current_user.role = "Member"
                                   /\ current_user.id = user_id
                                   /\ book_id \in StoredBookIds,
                         borrowed |-> \E i \in 1..Len(lending.borrowings) :
                                         /\ lending.borrowings[i].user_id = user_id
                                         /\ lending.borrowings[i].book_id = book_id,
                         reviewed |-> \E i \in 1..Len(reviewing.reviews) :
                                         /\ reviewing.reviews[i].user_id = user_id
                                         /\ reviewing.reviews[i].book_id = book_id]]
    /\ UNCHANGED <<searches, fuzzy, extraction, fts, lending, catalog, kwsearch, desk>>

InitReview ==
    /\ IdleSearch
    /\ fuzzy = NoFuzzy /\ extraction = NoExtraction /\ fts = NoFts /\ catalog = NoCatalog
    /\ kwsearch = NoKeywords /\ desk = NoDesk
    /\ lending = NoLending /\ reviewing = NoReviewing

NextReview ==
    \/ BorrowBook
    \/ ReturnBook
    \/ CreateReview

SpecReview == InitReview /\ [][NextReview]_vars

\* ------------------------------------------------- the keyword conditions
\* abbreviations (BaseRepository.list)
abbreviations ==
    <<<<"db", "database">>, <<"ai", "artificial intelligence">>,
      <<"ml", "machine learning">>, <<"dl", "deep learning">>,
      <<"nlp", "natural language processing">>,
      <<"api", "application programming interface">>,
      <<"sql", "structured query language">>, <<"ui", "user interface">>,
      <<"ux", "user experience">>, <<"js", "javascript">>, <<"py", "python">>,
      <<"cs", "computer science">>, <<"it", "information technology">>,
      <<"iot", "internet of things">>, <<"ci", "continuous integration">>,
      <<"cd", "continuous deployment">>>>

\* synonyms (BaseRepository.list)
synonyms ==
    <<<<"underwater", {"deep-sea", "ocean", "submarine", "aquatic"}>>,
      <<"deep-sea", {"underwater", "ocean", "submarine"}>>,
      <<"ocean", {"underwater", "deep-sea", "sea", "marine"}>>,
      <<"space", {"galaxy", "cosmic", "universe", "stellar"}>>,
      <<"galaxy", {"space", "cosmic", "universe", "stellar"}>>,
      <<"ancient", {"old", "historical", "antiquity"}>>,
      <<"old", {"ancient", "historical", "vintage"}>>,
      <<"future", {"futuristic", "tomorrow", "advanced"}>>,
      <<"futuristic", {"future", "tomorrow", "advanced"}>>,
      <<"scary", {"horror", "frightening", "terrifying"}>>,
      <<"horror", {"scary", "frightening", "terrifying"}>>>>

\* stop_words (search_books_ilike)
stop_words ==
    {"a", "an", "the", "and", "or", "but", "in", "on", "at", "to", "for", "of", "with",
     "by", "any", "me", "my", "find", "show", "get"}

\* the full forms of an abbreviation, with the plural of one not ending in s
FullForms(keyword_lower) ==
    UNION {IF endswith(abbreviations[i][2], "s") THEN {abbreviations[i][2]}
           ELSE {abbreviations[i][2], abbreviations[i][2] \o "s"} :
             i \in {k \in 1..Len(abbreviations) : abbreviations[k][1] = keyword_lower}}

\* variations = list(set(variations))
variations(keyword_lower) ==
    {keyword_lower}
      \cup UNION {synonyms[i][2] :
                    i \in {k \in 1..Len(synonyms) : synonyms[k][1] = keyword_lower}}
      \cup FullForms(keyword_lower)
      \cup (IF ~endswith(keyword_lower, "s") THEN {keyword_lower \o "s"} ELSE {})
      \cup (IF endswith(keyword_lower, "s") /\ Len(keyword_lower) > 3
            THEN {CutSuffix(keyword_lower, "s")} ELSE {})
      \cup (IF endswith(keyword_lower, "ing") /\ Len(keyword_lower) > 4
            THEN {CutSuffix(keyword_lower, "ing"), CutSuffix(keyword_lower, "ing") \o "e"}
            ELSE {})
      \cup (IF endswith(keyword_lower, "ed") /\ Len(keyword_lower) > 3
            THEN {CutSuffix(keyword_lower, "ed"), CutSuffix(keyword_lower, "ed") \o "e"}
            ELSE {})

\* or_(*keyword_conditions): some variation in some field, field ILIKE %variation%
AnyVariationInAnyField(book, variants, fields) ==
    \E v \in variants, f \in fields : ilike(book[f], "%" \o v \o "%")

\* the text search of BaseRepository.list on a row: and_(*search_conditions) over
\* the keywords of search_query.split()
list_search(book, search_query, search_fields) ==
    LET keywords == split(search_query)
    IN  \A k \in 1..Len(keywords) :
            AnyVariationInAnyField(book, variations(lower(keywords[k])), search_fields)

\* keywords of search_books_ilike: the words of query.lower().split() that are not
\* stop words and are longer than 2
ilike_keywords(query) ==
    LET words == split(lower(query))
    IN  {strip(words[k]) : k \in {i \in 1..Len(words) :
                                    /\ strip(words[i]) # ""
                                    /\ strip(words[i]) \notin stop_words
                                    /\ Len(strip(words[i])) > 2}}

\* the keyword search of search_books_ilike on a row: or_(*keyword_conditions)
ilike_search(book, query) ==
    \/ ilike_keywords(query) = {}
    \/ \E k \in ilike_keywords(query) :
         AnyVariationInAnyField(book, {k}, {"title", "description", "author", "genre"})

\* the stored books of the keyword searches
KeywordBooks ==
    <<[title |-> "Mastering Databases", description |-> "python and sql",
       author |-> "Ann", genre |-> "Tech", isbn |-> "111"],
      [title |-> "The Python Coder", description |-> "code", author |-> "Bob",
       genre |-> "Programming", isbn |-> "222"],
      [title |-> "Ocean", description |-> "deep", author |-> "axb", genre |-> "Horror",
       isbn |-> "333"]>>

KeywordQueries ==
    {"", "  ", "python", "Python", "python ocean", "master db", "a_b", "coding", "scary",
     "coders"}

\* words a query is extended with: stop words and words of at most two letters
AddedTokens == {"the", "of", "db", "xy", "find"}

\* search_fields of the fallback of search_books_fts
search_fields == {"title", "description", "author", "genre", "isbn"}

\* the rows list keeps for search_query (no cursor, no other filter)
ListReturned(search_query) ==
    {b \in 1..Len(KeywordBooks) :
        search_query = "" \/ list_search(KeywordBooks[b], search_query, search_fields)}

\* the rows search_books_ilike keeps for query (no cursor, no structured filter)
IlikeReturned(query) ==
    {b \in 1..Len(KeywordBooks) : query = "" \/ ilike_search(KeywordBooks[b], query)}

\* BaseRepository.list(search_fields, search_query), for the query and for the
\* query with the token added
ListKeywords ==
    /\ kwsearch.fn = "list" /\ kwsearch.state = "pending"
    /\ kwsearch' = [kwsearch EXCEPT
                     !.state = "done",
                     !.returned = ListReturned(kwsearch.query),
                     !.returned_with_token =
                         ListReturned(kwsearch.query \o " " \o kwsearch.token)]
    /\ UNCHANGED <<searches, fuzzy, extraction, fts, lending, catalog, reviewing, desk>>

\* search_books_ilike(query), for the query and for the query with the token added
SearchBooksIlikeKeywords ==
    /\ kwsearch.fn = "search_books_ilike" /\ kwsearch.state = "pending"
    /\ kwsearch' = [kwsearch EXCEPT
                     !.state = "done",
                     !.returned = IlikeReturned(kwsearch.query),
                     !.returned_with_token =
                         IlikeReturned(kwsearch.query \o " " \o kwsearch.token)]
    /\ UNCHANGED <<searches, fuzzy, extraction, fts, lending, catalog, reviewing, desk>>

InitKeywords ==
    /\ IdleSearch
    /\ fuzzy = NoFuzzy /\ extraction = NoExtraction /\ fts = NoFts /\ lending = NoLending
    /\ catalog = NoCatalog /\ reviewing = NoReviewing /\ desk = NoDesk
    /\ \E fn \in {"list", "search_books_ilike"}, q \in KeywordQueries, t \in AddedTokens :
         kwsearch = [NoKeywords EXCEPT !.fn = fn, !.query = q, !.token = t,
                                      !.state = "pending"]

NextKeywords ==
    \/ ListKeywords
    \/ SearchBooksIlikeKeywords

SpecKeywords == InitKeywords /\ [][NextKeywords]_vars

\* ------------------------------------- BorrowingService, overlapping requests
\* Each request runs in its own coroutine and session, and is suspended at every
\* await of a storage read or commit; the steps of two requests interleave.
\* the requests under way
Clients == 1..2

\* a row of the table at the time the race runs
RaceTime == 1

\* borrow_book(user_id, book_id, current_user), before its first step
BorrowRequest(user_id, book_id) ==
    [op |-> "borrow_book", user_id |-> user_id, book_id |-> book_id, borrowing_id |-> 0,
     current_user |-> [id |-> user_id, role |-> "Member"], pc |-> "get_book",
     error |-> ""]

\* return_book(borrowing_id, current_user), before its first step
ReturnRequest(borrowing_id) ==
    [op |-> "return_book", user_id |-> 0, book_id |-> 0, borrowing_id |-> borrowing_id,
     current_user |-> [id |-> 4, role |-> "Librarian"], pc |-> "get_borrowing",
     error |-> ""]

\* the request c goes on to the step pc, or ends with the error
Step(c, pc, error) ==
    [desk EXCEPT !.requests[c].pc = IF error = "" THEN pc ELSE "done",
                 !.requests[c].error = error]

\* borrow_book up to book = await self.book_repo.get_by_id(book_id)
BorrowGetBook ==
    /\ \E c \in Clients :
         /\ desk.requests[c].pc = "get_book"
         /\ desk' = Step(c, "get_user_borrowings",
                         IF /\ desk.requests[c].user_id # desk.requests[c].current_user.id
                            /\ desk.requests[c].current_user.role # "Admin"
                         THEN "Cannot borrow books for other users"
                         ELSE IF desk.requests[c].book_id \notin StoredBookIds
                              THEN "Book not found"
                         ELSE "")
    /\ UNCHANGED <<searches, fuzzy, extraction, fts, lending, catalog, reviewing, kwsearch>>

\* active_borrowings, _ = await get_user_borrowings(user_id, limit=100) and the
\* check of active_count
BorrowGetUserBorrowings ==
    /\ \E c \in Clients :
         /\ desk.requests[c].pc = "get_user_borrowings"
         /\ desk' = Step(c, "get_book_borrowings",
                         IF active_count(desk.borrowings,
                                         FirstPage(desk.borrowings, "user_id",
                                                   desk.requests[c].user_id, UserPageLimit))
                              >= MAX_BOOKS_PER_USER
                         THEN "You already have a book borrowed. Please return it before borrowing another book"
                         ELSE "")
    /\ UNCHANGED <<searches, fuzzy, extraction, fts, lending, catalog, reviewing, kwsearch>>

\* book_borrowings, _ = await get_book_borrowings(book_id, limit=10) and the
\* check that none of them is active
BorrowGetBookBorrowings ==
    /\ \E c \in Clients :
         /\ desk.requests[c].pc = "get_book_borrowings"
         /\ desk' = Step(c, "create",
                         IF active_count(desk.borrowings,
                                         FirstPage(desk.borrowings, "book_id",
                                                   desk.requests[c].book_id, BookPageLimit))
                              > 0
                         THEN "Book is currently borrowed"
                         ELSE "")
    /\ UNCHANGED <<searches, fuzzy, extraction, fts, lending, catalog, reviewing, kwsearch>>

\* return await self.borrowing_repo.create(borrowing_data): the row is added
\* and committed; the table has no constraint that could refuse it
BorrowCreate ==
    /\ \E c \in Clients :
         /\ desk.requests[c].pc = "create"
         /\ desk' = [desk EXCEPT
                       !.borrowings = Created(@, desk.requests[c].user_id,
                                              desk.requests[c].book_id, RaceTime),
                       !.requests[c].pc = "done",
                       !.requests[c].borrowing_id = Len(desk.borrowings) + 1]
    /\ UNCHANGED <<searches, fuzzy, extraction, fts, lending, catalog, reviewing, kwsearch>>

\* return_book up to borrowing = await self.borrowing_repo.get_by_id(borrowing_id)
\* and its three checks
ReturnGetBorrowing ==
    /\ \E c \in Clients :
         /\ desk.requests[c].pc = "get_borrowing"
         /\ desk' = Step(c, "repo_get_by_id",
                         ReturnError(desk.borrowings, desk.requests[c].borrowing_id,
                                     desk.requests[c].current_user))
    /\ UNCHANGED <<searches, fuzzy, extraction, fts, lending, catalog, reviewing, kwsearch>>

\* BorrowingRepository.return_book: borrowing = await self.get_by_id(borrowing_id).
\* The session hands back the object the service loaded, with returned_at as it
\* was read then (null), or as the row is by now when the object was refreshed;
\* None is returned for a borrowing seen as returned
ReturnRepoGetById ==
    /\ \E c \in Clients :
         /\ desk.requests[c].pc = "repo_get_by_id"
         /\ \E returned_at \in
                {None, desk.borrowings[desk.requests[c].borrowing_id].returned_at} :
              desk' = [desk EXCEPT
                         !.requests[c].pc = IF returned_at # None THEN "done"
                                            ELSE "commit"]
    /\ UNCHANGED <<searches, fuzzy, extraction, fts, lending, catalog, reviewing, kwsearch>>

\* borrowing.returned_at = utcnow_naive(); await self.session.commit()
ReturnCommit ==
    /\ \E c \in Clients :
         /\ desk.requests[c].pc = "commit"
         /\ desk' = [desk EXCEPT
                       !.borrowings[desk.requests[c].borrowing_id].returned_at =
                           Some(RaceTime),
                       !.requests[c].pc = "done"]
    /\ UNCHANGED <<searches, fuzzy, extraction, fts, lending, catalog, reviewing, kwsearch>>

\* the table when the requests arrive: empty, or the borrowing 1 of book 1 by
\* user 1, active or returned
DeskTables ==
    {<<>>,
     Created(<<>>, 1, 1, RaceTime),
     <<[Created(<<>>, 1, 1, RaceTime)[1] EXCEPT !.returned_at = Some(RaceTime)]>>}

InitDesk ==
    /\ IdleSearch
    /\ fuzzy = NoFuzzy /\ extraction = NoExtraction /\ fts = NoFts /\ lending = NoLending
    /\ catalog = NoCatalog /\ reviewing = NoReviewing /\ kwsearch = NoKeywords
    /\ \E table \in DeskTables,
          requests \in [Clients -> {BorrowRequest(u, b) : u \in Borrowers,
                                                           b \in StoredBookIds \cup {3}}
                                     \cup {ReturnRequest(1)}] :
         desk = [borrowings |-> table, requests |-> requests]

NextDesk ==
    \/ BorrowGetBook
    \/ BorrowGetUserBorrowings
    \/ BorrowGetBookBorrowings
    \/ BorrowCreate
    \/ ReturnGetBorrowing
    \/ ReturnRepoGetById
    \/ ReturnCommit

SpecDesk == InitDesk /\ [][NextDesk]_vars

\* ----------------------------------------------------- the pagination walk
Strategies == {"list", "fts", "ilike", "where"}

\* The results of the walk's request when it is sent with `cursor`.
Call(w, cursor) ==
    CASE w.strategy = "list" -> {list(w.limit, cursor, FALSE, w.sort_order)}
      [] w.strategy = "fts" -> search_books_fts(w.query, w.limit, cursor, w.sort_order)
      [] w.strategy = "ilike" -> search_books_ilike(w.limit, cursor, w.sort_order)
      [] w.strategy = "where" -> search_books_with_where_clause(w.limit, cursor, w.sort_order)

\* The client takes the page and passes next_cursor back on its next request.
Advance(r) ==
    /\ page' = [cursor |-> walk.cursor, res |-> r]
    /\ walk' = [walk EXCEPT !.cursor = r.next_cursor,
                            !.got = @ \o r.items,
                            !.pages = @ + 1,
                            !.tiers = @ \cup {r.tier},
                            !.failed = (r.exc # "none"),
                            !.done = (r.exc # "none" \/ r.next_cursor = NoCursor)]
    /\ again' = NoPage
    /\ UNCHANGED <<store, is_postgres, http, vocab, validation, nl, others>>

\* GET /books without search or filters: BookService.list_books
ListBooks ==
    /\ walk.strategy = "list" /\ ~walk.done
    /\ Advance(list(walk.limit, walk.cursor, FALSE, walk.sort_order))

\* GET /books with a search text or a filter: BookService.search_books_fts
SearchBooksFts ==
    /\ walk.strategy = "fts" /\ ~walk.done
    /\ \E r \in search_books_fts(walk.query, walk.limit, walk.cursor, walk.sort_order) :
         Advance(r)

\* POST /ai/books/search_nl, filter-extraction tier
SearchBooksIlike ==
    /\ walk.strategy = "ilike" /\ ~walk.done
    /\ \E r \in search_books_ilike(walk.limit, walk.cursor, walk.sort_order) : Advance(r)

\* POST /ai/books/search_nl, predicate tier
SearchBooksWithWhereClause ==
    /\ walk.strategy = "where" /\ ~walk.done
    /\ \E r \in search_books_with_where_clause(walk.limit, walk.cursor, walk.sort_order) :
         Advance(r)

\* The client sends the request of the last page once more, unchanged.
Repeat ==
    /\ walk.pages > 0 /\ again = NoPage
    /\ \E r \in Call(walk, page.cursor) : again' = [cursor |-> page.cursor, res |-> r]
    /\ UNCHANGED <<store, is_postgres, walk, page, http, vocab, validation, nl, others>>

\* The text query runs the ranked tier
Ranked(w) == w.strategy = "fts" /\ w.query /\ is_postgres

InitWalk ==
    /\ IdleOthers
    /\ \E n \in 0..MaxBooks : store \in [1..n -> BookRows]
    /\ is_postgres \in BOOLEAN
    /\ \E s \in Strategies, q \in BOOLEAN, l \in 1..MaxLimit, o \in {"asc", "desc"} :
         walk = [strategy |-> s, query |-> q, limit |-> l, sort_order |-> o,
                 cursor |-> NoCursor, got |-> <<>>, pages |-> 0, tiers |-> {},
                 failed |-> FALSE, done |-> FALSE]
    \* only search_books_fts reads the dialect or tells a text query from a filter
    /\ walk.strategy # "fts" => is_postgres /\ walk.query
    \* rows have a rank only under a ranked request, and all rows match a request
    \* that filters nothing
    /\ ~Ranked(walk) => \A b \in Ids : store[b].rank = 0
    /\ walk.strategy = "list" => \A b \in Ids : store[b].matches
    \* a walk whose ranked tier has rows never consults the keyword tier
    /\ Ranked(walk) /\ FtsCandidates # {} => \A b \in Ids : store[b].matches
    /\ page = NoPage
    /\ again = NoPage
    /\ http = NoHttp
    /\ vocab = [authors |-> <<>>, genres |-> <<>>]
    /\ validation = NoValidation
    /\ nl = NoRequest

NextWalk ==
    \/ ListBooks
    \/ SearchBooksFts
    \/ SearchBooksIlike
    \/ SearchBooksWithWhereClause

SpecWalk == InitWalk /\ [][NextWalk]_vars

NextRepeat ==
    \/ ListBooks
    \/ SearchBooksFts
    \/ SearchBooksIlike
    \/ SearchBooksWithWhereClause
    \/ Repeat

SpecRepeat == InitWalk /\ [][NextRepeat]_vars

\* The rows a tier pages through
RowSet(tier) ==
    CASE tier = "fts" -> FtsCandidates
      [] tier = "list" -> IF walk.strategy = "list" THEN Ids ELSE Matching
      [] OTHER -> Matching

\* C1: a walk on the compound-cursor path (every page served by
\* BaseRepository.list), from cursor = null through the returned next_cursor
\* values, never fails, never yields a record twice, yields only matching
\* records, gets a full page whenever it is told to go on, and has yielded
\* every matching record when next_cursor comes back null.
C1_CompoundWalkComplete ==
    walk.tiers = {"list"} =>
        /\ ~walk.failed
        /\ NoDup(walk.got)
        /\ Range(walk.got) \subseteq RowSet("list")
        /\ ~walk.done => Len(walk.got) = walk.pages * walk.limit
        /\ walk.done => Range(walk.got) = RowSet("list")

\* a finished compound-cursor walk of three pages over records that share a created_at
C1_Witness ==
    /\ walk.tiers = {"list"} /\ walk.done /\ walk.pages = 3 /\ Len(walk.got) = 3
    /\ \E a, b \in Range(walk.got) : a # b /\ store[a].created_at = store[b].created_at

\* C2: a walk on an offset-cursor path (ranked tier, search_books_ilike,
\* search_books_with_where_clause) never yields a record twice and has yielded
\* every matching record when next_cursor comes back null.
C2_OffsetWalkComplete ==
    walk.tiers # {} /\ walk.tiers \subseteq {"fts", "ilike", "where"} =>
        /\ NoDup(walk.got)
        /\ walk.done => \A t \in walk.tiers : Range(walk.got) = RowSet(t)

\* C3: a returned page holds at most limit records, and its next_cursor is
\* non-null exactly when a matching record lies after the page's last record
\* in the order of the tier that served it.
MoreAfter(r) ==
    IF r.tier = "list"
    THEN /\ r.items # <<>>
         /\ \E b \in RowSet("list") : Precedes(walk.sort_order, r.items[Len(r.items)], b)
    ELSE Cardinality(RowSet(r.tier)) > r.offset + Len(r.items)

C3_PageShape ==
    walk.pages > 0 /\ page.res.exc = "none" =>
        /\ Len(page.res.items) <= walk.limit
        /\ (page.res.next_cursor # NoCursor) <=> MoreAfter(page.res)

\* a full page with a next_cursor on one path, reached on a later page of the walk
C3_Witness ==
    /\ walk.pages = 2 /\ page.res.exc = "none" /\ page.res.tier = "fts"
    /\ Len(page.res.items) = walk.limit /\ page.res.next_cursor # NoCursor

\* C4: the same request sent twice with no write in between returns the same
\* records in the same order and the same next_cursor.
C4_Idempotent ==
    again # NoPage => again.res = page.res

\* ---------------------------------------------------------------- C5 .. C10
ContainsIgnoringCase(s, word) == Contains(lower(s), lower(word))

\* the string holds a statement separator, a comment marker, a disallowed
\* keyword or typo variant, or a parenthesised sub-SELECT
Dangerous(s) ==
    \/ Contains(s, ";")
    \/ Contains(s, "--") \/ Contains(s, "/*")
    \/ \E w \in {"DELETE", "DROP", "UPDATE", "INSERT", "ALTER", "EXEC", "UNION", "JOIN",
                 "delect", "delet", "updat", "drp", "insrt", "deleted", "deletes"} :
         ContainsIgnoringCase(s, w)
    \/ \E i \in 1..Len(s) :
         Ch(s, i) = "(" /\ ContainsIgnoringCase(SubSeq(s, i + 1, Min(Len(s), i + 7)), "select")

\* C5: validator soundness: validate_where_clause rejects every string that
\* holds a statement separator, a line or block comment marker, or, in any
\* letter case, a disallowed keyword, one of its typo variants or a
\* parenthesised sub-SELECT.
C5_ValidatorSound ==
    validation.state = "done" /\ Dangerous(validation.clause) => ~validation.verdict.ok

\* a keyword in another letter case, inside a quoted literal, has been rejected
C5_Witness ==
    /\ validation.state = "done" /\ validation.clause = "author ILIKE '%Union Jack%'"
    /\ ~validation.verdict.ok

\* C6, as stated: every predicate built from the whitelisted columns, ILIKE /
\* NOT ILIKE / comparison with quoted literals, AND / OR, balanced parentheses
\* and EXTRACT is accepted, whatever the text inside the quoted literals.
C6_SafeAcceptedAnyLiteral ==
    validation.state = "done" /\ validation.clause \in SafePredicates(LiteralTexts)
        => validation.verdict.ok

\* the literal texts without separator, comment marker, keyword, quote or parenthesis
PlainTexts ==
    {t \in LiteralTexts : ~Dangerous(t) /\ \A c \in {"'", "(", ")"} : ~Contains(t, c)}

\* C6, amended: such a predicate is accepted provided the text inside its
\* quoted literals holds no statement separator, comment marker, disallowed
\* keyword or typo variant, quote or parenthesis.
C6_SafeAcceptedPlainLiteral ==
    validation.state = "done" /\ validation.clause \in SafePredicates(PlainTexts)
        => validation.verdict.ok

\* a parenthesised OR of two conditions, AND the EXTRACT condition, was accepted
C6_Witness ==
    /\ validation.state = "done" /\ validation.verdict.ok
    /\ validation.clause =
         "(author NOT ILIKE '%stephen king%' OR title ILIKE '%test%') AND " \o ExtractYear

\* C7: every predicate string the endpoint passes to
\* search_books_with_where_clause, and every string then embedded in the
\* executed query, is one that validate_where_clause accepts.
C7_ExecutedWasValidated ==
    /\ \A i \in 1..Len(nl.passed) : validate_where_clause(nl.passed[i]).ok
    /\ \A i \in 1..Len(nl.executed) : validate_where_clause(nl.executed[i]).ok

\* C8: when the validator rejects the oracle's predicate, nl_to_sql_where
\* returns success = false, fallback_reason "validation_failed" and a null
\* where_clause, search_books_with_where_clause is not called in the request,
\* and the request goes on to the filter-extraction tier.
C8_RejectedNeverExecuted ==
    nl.pc # "idle" /\ validation.state = "done" /\ ~validation.verdict.ok =>
        /\ ~nl.sql_result.success
        /\ nl.sql_result.fallback_reason = Some("validation_failed")
        /\ nl.sql_result.where_clause = None
        /\ \A i \in 1..Len(nl.calls) : nl.calls[i] # "search_books_with_where_clause"
        /\ nl.passed = <<>> /\ nl.executed = <<>>
        /\ nl.pc \in {"extraction", "search", "responded"}
        /\ nl.pc \in {"search", "responded"} =>
             \E i \in 1..Len(nl.calls) : nl.calls[i] = "nl_to_filters_validated"

\* a rejected injection attempt answered by the filter-extraction tier
C8_Witness ==
    /\ nl.pc = "responded" /\ nl.response.method = "filter_extraction"
    /\ nl.sql_result.attempted_clause = Some("title ILIKE '%test%'; DROP TABLE books")
    /\ nl.response.fallback_reason = Some("validation_failed")

Malformed(cursor) == cursor # NoCursor /\ ~ValidCompound(cursor) /\ ~ValidOffset(cursor)

\* C10: a malformed cursor is answered with 400 "Invalid cursor format" by
\* GET /books and by POST /ai/books/search_nl.
C10_MalformedCursorIs400 ==
    /\ http.status # 0 /\ Malformed(http.cursor) =>
         http.status = 400 /\ http.detail = "Invalid cursor format"
    /\ nl.pc = "responded" /\ Malformed(nl.cursor) /\ Len(nl.query) <= 500 =>
         nl.response.status = 400 /\ nl.response.detail = "Invalid cursor format"

\* --------------------------------------------------------------- C11 .. C20
\* the calls of the request that reach the oracle or search the storage
OracleOrSearchCalls ==
    {i \in 1..Len(nl.calls) :
        nl.calls[i] \in {"oracle", "search_books_with_where_clause", "search_books_ilike"}}

\* C11: a natural-language search whose query is longer than 500 characters
\* is answered with 400, and no oracle call and no storage search is made for it.
C11_LongQueryRejectedFirst ==
    nl.pc = "responded" /\ Len(nl.query) > 500 =>
        nl.response.status = 400 /\ OracleOrSearchCalls = {}

\* C12: a compound {created_at, id} cursor is not accepted by the
\* offset-paginated natural-language search, and an offset cursor is not
\* accepted by the compound-key pagination of the unfiltered GET /books.
C12_StrategySpecific ==
    /\ nl.pc = "responded" /\ Len(nl.query) <= 500 /\ ValidCompound(nl.cursor) =>
         nl.response.status # 200
    /\ http.status # 0 /\ ~http.filtered /\ ValidOffset(http.cursor) =>
         http.status # 200

\* the candidate as the matcher compares it: validate_filters strips it first
Compared(f) == IF f.fn = "validate_filters" THEN strip(f.candidate) ELSE f.candidate

\* the vocabulary holds a value equal to the compared candidate, ignoring case
HasExact(f) ==
    \E i \in 1..Len(f.vocabulary) : lower(f.vocabulary[i]) = lower(Compared(f))

\* C13: whenever the vocabulary holds a value equal to the candidate ignoring
\* case, each of the matchers (_fuzzy_match_author, _fuzzy_match_genre and
\* validate_filters for author and for genre) returns a value of the
\* vocabulary that equals the candidate ignoring case, whatever else the
\* vocabulary holds.
C13_ExactMatchShortCircuit ==
    fuzzy.state = "done" /\ HasExact(fuzzy) =>
        /\ fuzzy.result.exc = "none"
        /\ fuzzy.result.value # None
        /\ lower(fuzzy.result.value[1]) = lower(Compared(fuzzy))
        /\ \E i \in 1..Len(fuzzy.vocabulary) : fuzzy.vocabulary[i] = fuzzy.result.value[1]

\* an exact match that is not the most similar entry by score is returned
C13_Witness ==
    /\ fuzzy.state = "done" /\ fuzzy.fn = "_fuzzy_match_author"
    /\ fuzzy.candidate = "king" /\ fuzzy.vocabulary = <<"King Kong", "King">>
    /\ fuzzy.result = [exc |-> "none", value |-> Some("King")]

\* C14: for every candidate and every vocabulary (the empty list and entries
\* of only whitespace included) author and genre matching raise nothing and
\* return the candidate itself or a member of the vocabulary.
C14_MatcherNeverRaises ==
    fuzzy.state = "done" =>
        /\ fuzzy.result.exc = "none"
        /\ \/ fuzzy.result.value = None /\ Compared(fuzzy) = ""
           \/ /\ fuzzy.result.value # None
              /\ \/ fuzzy.result.value[1] \in {fuzzy.candidate, Compared(fuzzy)}
                 \/ \E i \in 1..Len(fuzzy.vocabulary) :
                      fuzzy.vocabulary[i] = fuzzy.result.value[1]

\* C15: when the oracle call of nl_to_filters fails (no API key, or an
\* exception of any kind, "Event loop is closed" included), nl_to_filters
\* raises nothing and returns author, genre and published_year null and
\* search_query equal to the query as it was given. (A blank query returns
\* before any oracle call is made.)
C15_OracleFailureGivesRawQuery ==
    /\ extraction.state = "done" /\ strip(extraction.query) # ""
    /\ ~extraction.api_key \/ extraction.oracle.raised
    => extraction.result = [exc |-> "none", author |-> None, genre |-> None,
                            published_year |-> None,
                            search_query |-> Some(extraction.query)]

C15_Witness ==
    /\ extraction.state = "done" /\ extraction.api_key
    /\ extraction.oracle = FilterOracleRaises("Event loop is closed")
    /\ extraction.query = " books by hirenn "
    /\ extraction.result.exc = "none"
    /\ extraction.result.search_query = Some(" books by hirenn ")

\* C16: when the oracle's answer is malformed JSON or a JSON value that is
\* no object, the Extractor raises nothing and returns a record with all
\* four fields null.
C16_BadJsonGivesAllNull ==
    /\ extraction.state = "done" /\ strip(extraction.query) # ""
    /\ extraction.api_key /\ ~extraction.oracle.raised
    /\ extraction.oracle.json.form # "object"
    => extraction.result = AllNull

FallbackReasons ==
    {"empty_query", "api_key_missing", "validation_failed", "quota_exceeded",
     "event_loop_error", "gemini_error"}

\* C17: every answer with method filter_extraction has fallback_used true and
\* a fallback_reason that is one of the six reasons, whether the translation
\* failed or the execution of the predicate did; every answer of the
\* predicate tier has fallback_used false.
C17_FallbackReasonAlwaysNamed ==
    nl.pc = "responded" /\ nl.response.status = 200 =>
        /\ nl.response.method = "filter_extraction" =>
             /\ nl.response.fallback_used
             /\ nl.response.fallback_reason # None
             /\ nl.response.fallback_reason[1] \in FallbackReasons
        /\ nl.response.method = "sql_where_clause" => ~nl.response.fallback_used

\* C18: every natural-language search request is answered in the end, even
\* when the oracle never answers: each oracle call is cut off by a timeout,
\* the stage counts as failed and the cascade moves on.
C18_SilentOracleStillAnswered == (nl.pc = "received") ~> (nl.pc = "responded")

\* with an oracle that answers or raises, every request is answered
AnsweredWhenOracleAnswers ==
    (nl.pc = "received" /\ nl.silent = {}) ~> (nl.pc = "responded")

HasWildcard(filter) == Contains(filter, "%") \/ Contains(filter, "_")

\* the book at position b contains the text filter, ignoring case
ContainsFilter(text, filter) == Contains(lower(text), lower(filter[1]))

\* C19: every record search_books_fts returns, from either tier,
\* satisfies every structured filter that was supplied: its author contains
\* the author filter ignoring case, its genre contains the genre filter
\* ignoring case, and the year of its published_date equals the year filter.
C19_ReturnedSatisfyFilters ==
    fts.state = "done" =>
        \A i \in 1..Len(fts.items) :
            LET book == fts.books[fts.items[i]]
            IN  /\ fts.author # None => ContainsFilter(book.author, fts.author)
                /\ fts.genre # None => ContainsFilter(book.genre, fts.genre)
                /\ fts.published_year # None =>
                     YearOf(book.published_date) = fts.published_year[1]

\* the same holds in both tiers for a text filter with no % and no _ and
\* for a year filter other than 0
PlainFiltersSatisfied ==
    fts.state = "done" =>
        \A i \in 1..Len(fts.items) :
            LET book == fts.books[fts.items[i]]
            IN  /\ fts.author # None /\ ~HasWildcard(fts.author[1]) =>
                     ContainsFilter(book.author, fts.author)
                /\ fts.genre # None /\ ~HasWildcard(fts.genre[1]) =>
                     ContainsFilter(book.genre, fts.genre)
                /\ fts.published_year \notin {None, Some(0)} =>
                     YearOf(book.published_date) = fts.published_year[1]

\* the fallback tier answered for the ranked one and kept the filters
FallbackKeptFilters ==
    /\ fts.state = "done" /\ fts.query /\ fts.postgres /\ fts.tier = "list"
    /\ fts.author = Some("king") /\ fts.genre = Some("HORROR")
    /\ fts.published_year = Some(2020)
    /\ fts.limit = 2 /\ Len(fts.items) = 2

ActiveBorrowings(user_id) ==
    {i \in 1..Len(lending.borrowings) :
        /\ lending.borrowings[i].user_id = user_id
        /\ lending.borrowings[i].returned_at = None}

\* C20: after any sequence of borrow_book and return_book calls every user
\* has at most MAX_BOOKS_PER_USER (= 1) borrowings that are not returned; a
\* borrow_book call for a user with an active borrowing fails and creates no
\* record; and a user whose borrowings are all returned can borrow again
\* (a stored book nobody holds, asked for by the user or by an Admin).
C20_OneActiveBorrowingPerUser ==
    /\ \A u \in Borrowers : Cardinality(ActiveBorrowings(u)) <= 1
    /\ lending.last.op = "borrow_book" /\ lending.last.had_active =>
         /\ lending.last.error # ""
         /\ Len(lending.borrowings) = lending.last.before
    /\ lending.last.op = "borrow_book" /\ lending.last.free =>
         /\ lending.last.error = ""
         /\ Len(lending.borrowings) = lending.last.before + 1
         /\ ActiveBorrowings(lending.last.user_id) = {Len(lending.borrowings)}

\* a user borrowed again after returning, more often than the page is long
C20_Witness ==
    /\ Len(lending.borrowings) = 3
    /\ \A i \in 1..3 : lending.borrowings[i].user_id = 1
    /\ \A i \in 1..2 : lending.borrowings[i].returned_at # None
    /\ lending.borrowings[3].returned_at = None
    /\ lending.last.op = "borrow_book" /\ lending.last.error = ""

\* --------------------------------------------------------------- C21 .. C30
\* C21: after any sequence of create_book, update_book and delete_book calls
\* no two stored books have the same ISBN; a create or an update that would
\* give a book an ISBN another book holds fails with an error and leaves the
\* stored books as they were.
C21_IsbnUnique ==
    /\ \A a, b \in catalog.books : a.isbn = b.isbn => a.id = b.id
    /\ catalog.last.clash =>
         /\ catalog.last.error # ""
         /\ catalog.books = catalog.last.before

\* an update to the ISBN of the other stored book was refused
C21_Witness ==
    /\ catalog.last.op = "update_book" /\ catalog.last.clash
    /\ catalog.last.error = "Book with this ISBN already exists"
    /\ Cardinality(catalog.books) = 2

\* C22: create_review by a member for a stored book succeeds exactly when the
\* member has a borrowing of that book, returned or not, and no review of it
\* yet; a failed call stores nothing; there is at most one review per user and
\* book, and the author of every review has borrowed the book.
C22_ReviewIffBorrowedAndNew ==
    /\ reviewing.last.asked =>
         (reviewing.last.error = "" <=>
              reviewing.last.borrowed /\ ~reviewing.last.reviewed)
    /\ reviewing.last.error # "" => reviewing.reviews = reviewing.last.before
    /\ \A i, j \in 1..Len(reviewing.reviews) :
         /\ reviewing.reviews[i].user_id = reviewing.reviews[j].user_id
         /\ reviewing.reviews[i].book_id = reviewing.reviews[j].book_id
         => i = j
    /\ \A i \in 1..Len(reviewing.reviews) :
         \E k \in 1..Len(lending.borrowings) :
            /\ lending.borrowings[k].user_id = reviewing.reviews[i].user_id
            /\ lending.borrowings[k].book_id = reviewing.reviews[i].book_id

\* the parts of C22 that hold whatever the number of borrowings of the member: a
\* review is only created for a borrowed book not yet reviewed, a failed call
\* stores nothing, and no member has two reviews of one book
ReviewOnlyIfBorrowedAndNew ==
    /\ reviewing.last.op = "create_review" /\ reviewing.last.error = ""
         => reviewing.last.borrowed /\ ~reviewing.last.reviewed
    /\ reviewing.last.error # "" => reviewing.reviews = reviewing.last.before
    /\ \A i, j \in 1..Len(reviewing.reviews) :
         /\ reviewing.reviews[i].user_id = reviewing.reviews[j].user_id
         /\ reviewing.reviews[i].book_id = reviewing.reviews[j].book_id
         => i = j

\* C23: a borrowing goes from active to returned at most once: no step changes
\* a borrowing whose returned_at is set, and return_book on a borrowing that is
\* already returned fails, with 'Book already returned' for a caller allowed to
\* return it, and leaves the borrowings as they were.
C23_ReturnedAtMostOnce ==
    [][/\ \A i \in 1..Len(lending.borrowings) :
            lending.borrowings[i].returned_at # None =>
                /\ i <= Len(lending'.borrowings)
                /\ lending'.borrowings[i] = lending.borrowings[i]
       /\ lending'.last.op = "return_book" /\ lending'.last.was_returned =>
            /\ lending'.last.error # ""
            /\ lending'.last.allowed => lending'.last.error = "Book already returned"
            /\ lending'.borrowings = lending.borrowings]_vars

\* a caller allowed to return the borrowing asked for a second return and was
\* refused
C23_Witness ==
    /\ lending.last.op = "return_book" /\ lending.last.was_returned
    /\ lending.last.allowed /\ lending.last.error = "Book already returned"

\* C24: the page search_books_fts returns is a page of the ranked tier exactly
\* when the store is PostgreSQL, a text query is present and the ranked tier has
\* a row at the cursor's offset; in every other case it is what
\* BaseRepository.list returns for the same cursor, limit and sort order; a
\* store that is not PostgreSQL never answers from the ranked tier.
C24_CascadeOfSearchBooksFts ==
    walk.strategy = "fts" /\ walk.pages > 0 =>
        LET offset == IF page.cursor.offset = Absent THEN 0 ELSE page.cursor.offset[2]
            yields == walk.query /\ is_postgres /\ Cardinality(FtsCandidates) > offset
        IN  /\ page.res.tier = "fts" <=> yields
            /\ yields => \E order \in RowOrders(FtsCandidates, "rank") :
                            page.res = OffsetPage(order, offset, walk.limit, "fts")
            /\ ~yields => page.res = list(walk.limit, page.cursor, TRUE, walk.sort_order)
            /\ ~is_postgres => "fts" \notin walk.tiers

\* a text query on PostgreSQL whose ranked tier held no row was answered by the
\* fallback, with the rows the keyword conditions keep
C24_Witness ==
    /\ walk.strategy = "fts" /\ walk.pages > 0 /\ walk.query /\ is_postgres
    /\ FtsCandidates = {} /\ page.res.tier = "list" /\ page.res.items # <<>>

\* the words of the query that are neither stop words nor shorter than three
\* letters
Surviving(query) ==
    {w \in Range(split(lower(query))) : w \notin stop_words /\ Len(w) > 2}

\* a variant of the keyword is a substring of a text field of the book, ignoring case
VariantInBook(book, k) ==
    \E v \in variations(k), f \in search_fields : Contains(lower(book[f]), v)

\* C25: in both keyword searches (BaseRepository.list and search_books_ilike)
\* a record is returned only if every surviving keyword of the query has a
\* variant that is a case-insensitive substring of one of its text fields.
C25_EveryKeywordMatches ==
    kwsearch.state = "done" =>
        \A b \in kwsearch.returned :
            \A k \in Surviving(kwsearch.query) : VariantInBook(KeywordBooks[b], k)

\* what holds of the keyword search of list: for a query without % and _ every
\* returned record has, for every word of the query, a variant in a text field
ListKeywordsAllMatch ==
    kwsearch.state = "done" /\ kwsearch.fn = "list" /\ ~HasWildcard(kwsearch.query) =>
        \A b \in kwsearch.returned :
            \A k \in Range(split(lower(kwsearch.query))) : VariantInBook(KeywordBooks[b], k)

\* C26: a stop word or a word of at most two letters added to the query
\* does not change the records a keyword search returns.
C26_StopWordsChangeNothing ==
    kwsearch.state = "done" => kwsearch.returned_with_token = kwsearch.returned

\* what holds of search_books_ilike: the added word changes nothing
IlikeIgnoresStopWords ==
    kwsearch.state = "done" /\ kwsearch.fn = "search_books_ilike" =>
        kwsearch.returned_with_token = kwsearch.returned

\* nl_to_sql_where has returned for the request
Translated == nl.calls # <<>> /\ nl.calls[1] = "nl_to_sql_where"

\* the result of nl_to_sql_where came from the except clause: the error is
\* str(e) and none of the three texts the function writes itself
FromException ==
    /\ nl.sql_result.error # None
    /\ nl.sql_result.error[1] \notin {"Query cannot be empty", "GEMINI_API_KEY not set",
                                      "Generated WHERE clause failed validation"}

\* C27: the result of nl_to_sql_where has success true exactly when
\* where_clause is not null and exactly when fallback_reason is null; a failure
\* names one of the six reasons; an exception whose message contains 'quota' or
\* '429' gives quota_exceeded, otherwise one containing 'event loop' gives
\* event_loop_error, any other gemini_error; nothing is raised to the caller.
C27_ResultShape ==
    Translated =>
        /\ nl.sql_result.exc = "none"
        /\ nl.sql_result.success <=> nl.sql_result.where_clause # None
        /\ nl.sql_result.success <=> nl.sql_result.fallback_reason = None
        /\ ~nl.sql_result.success =>
             /\ nl.sql_result.fallback_reason # None
             /\ nl.sql_result.fallback_reason[1] \in FallbackReasons
        /\ FromException =>
             nl.sql_result.fallback_reason =
                 Some(IF \/ Contains(lower(nl.sql_result.error[1]), "quota")
                         \/ Contains(nl.sql_result.error[1], "429")
                      THEN "quota_exceeded"
                      ELSE IF Contains(lower(nl.sql_result.error[1]), "event loop")
                           THEN "event_loop_error"
                      ELSE "gemini_error")

\* the oracle raised 'Event loop is closed' and the result names event_loop_error
C27_Witness ==
    /\ Translated /\ ~nl.sql_result.success
    /\ nl.sql_result.error = Some("Event loop is closed")
    /\ nl.sql_result.fallback_reason = Some("event_loop_error")

\* C28: for the same candidate and the same vocabulary the author
\* correction of _fuzzy_match_author equals the author validate_filters returns,
\* and the genre correction of _fuzzy_match_genre equals the genre
\* validate_filters returns.
C28_SameMatcherOnBothPaths ==
    fuzzy.state = "done" =>
        /\ fuzzy.fn = "_fuzzy_match_author" =>
             fuzzy.result = [exc |-> "none",
                             value |-> ValidatedAuthor(JStr(fuzzy.candidate),
                                                       fuzzy.vocabulary)]
        /\ fuzzy.fn = "_fuzzy_match_genre" =>
             fuzzy.result = [exc |-> "none",
                             value |-> ValidatedGenre(JStr(fuzzy.candidate),
                                                      fuzzy.vocabulary)]

\* what the two paths share: a candidate that equals a vocabulary entry up to
\* letter case is replaced by that entry on both
ExactMatchOnBothPaths ==
    /\ fuzzy.state = "done" /\ fuzzy.fn \in {"_fuzzy_match_author", "_fuzzy_match_genre"}
    /\ \E i \in 1..Len(fuzzy.vocabulary) :
         lower(fuzzy.vocabulary[i]) = lower(fuzzy.candidate)
    /\ fuzzy.candidate # ""
    => /\ fuzzy.result.exc = "none"
       /\ fuzzy.result.value =
            IF fuzzy.fn = "_fuzzy_match_author"
            THEN ValidatedAuthor(JStr(fuzzy.candidate), fuzzy.vocabulary)
            ELSE ValidatedGenre(JStr(fuzzy.candidate), fuzzy.vocabulary)

\* the positions of the call in the calls of the request
CallsOf(name) == {i \in 1..Len(nl.calls) : nl.calls[i] = name}

\* C29: in one natural-language search the stages run one after another:
\* validate_where_clause runs right after the translation oracle has answered
\* and before the predicate search; filter extraction starts only when the
\* translation failed or the predicate search raised, and no tier has answered
\* by then; the answer holds the books of exactly one tier, the last one run.
C29_StagesInOrder ==
    /\ \A i \in CallsOf("validate_where_clause") :
         /\ i > 1 /\ nl.calls[i - 1] = "oracle"
         /\ \A j \in CallsOf("search_books_with_where_clause") : i < j
    /\ CallsOf("search_books_with_where_clause") # {} =>
         /\ CallsOf("validate_where_clause") # {}
         /\ validation.state = "done" /\ validation.verdict.ok
    /\ \A i \in CallsOf("nl_to_filters_validated") :
         /\ \A j \in CallsOf("nl_to_sql_where") \cup CallsOf("validate_where_clause")
                       \cup CallsOf("search_books_with_where_clause") : j < i
         /\ \A j \in CallsOf("search_books_ilike") : i < j
         /\ ~nl.sql_result.success \/ CallsOf("search_books_with_where_clause") # {}
    /\ nl.pc \in {"extraction", "search"} => nl.response.status = 0
    /\ Cardinality(CallsOf("search_books_with_where_clause")) <= 1
    /\ Cardinality(CallsOf("search_books_ilike")) <= 1
    /\ nl.pc = "responded" /\ nl.response.status = 200 =>
         /\ nl.response.method = "sql_where_clause" =>
              /\ nl.calls[Len(nl.calls)] = "search_books_with_where_clause"
              /\ CallsOf("nl_to_filters_validated") = {}
              /\ CallsOf("search_books_ilike") = {}
         /\ nl.response.method = "filter_extraction" =>
              nl.calls[Len(nl.calls)] = "search_books_ilike"
         /\ nl.response.method \in {"sql_where_clause", "filter_extraction"}

\* the predicate search raised, and the request was answered from the keyword
\* search after filter extraction
C29_Witness ==
    /\ nl.pc = "responded" /\ nl.response.status = 200
    /\ nl.response.method = "filter_extraction"
    /\ CallsOf("search_books_with_where_clause") # {}
    /\ CallsOf("validate_where_clause") # {}

\* the borrowings of the table with returned_at null and the value in the column
ActiveRows(column, value) ==
    {i \in 1..Len(desk.borrowings) :
        desk.borrowings[i][column] = value /\ desk.borrowings[i].returned_at = None}

\* the request created a borrowing
Succeeded(c) ==
    /\ desk.requests[c].op = "borrow_book" /\ desk.requests[c].pc = "done"
    /\ desk.requests[c].error = "" /\ desk.requests[c].borrowing_id # 0

\* C30: under every interleaving of the steps of concurrent borrow_book and
\* return_book requests every book has at most one borrowing with returned_at
\* null and every user has at most one, and two borrow requests for the same
\* book or by the same user never both succeed.
C30_OneActiveBorrowingUnderConcurrency ==
    /\ \A b \in StoredBookIds : Cardinality(ActiveRows("book_id", b)) <= 1
    /\ \A u \in Borrowers : Cardinality(ActiveRows("user_id", u)) <= 1
    /\ \A c, d \in DOMAIN desk.requests :
         /\ c # d /\ Succeeded(c) /\ Succeeded(d)
         => /\ desk.requests[c].book_id # desk.requests[d].book_id
            /\ desk.requests[c].user_id # desk.requests[d].user_id

\* what holds under every interleaving: a borrowing that is returned stays
\* returned
ReturnedStaysReturned ==
    [][\A i \in 1..Len(desk.borrowings) :
          desk.borrowings[i].returned_at # None =>
              desk'.borrowings[i].returned_at # None]_vars
====
